---- MODULE Spec2Model ----
(***************************************************************************)
(* The microkernel WASM shell (tools/shell/shell_wasm/src/lib.rs): the     *)
(* byte-string utilities, the target resolver, the command handlers with   *)
(* their deadline-bound receives, and the REPL loop of handle_message.     *)
(*                                                                         *)
(* Bytes are their ASCII codes.  A u64 is four 16-bit limbs, least         *)
(* significant first, so that wrapping_mul / wrapping_add keep their       *)
(* 64-bit width.  A message type is its 32-bit pattern read as an i32.     *)
(***************************************************************************)
EXTENDS Integers, Sequences, FiniteSets, TLC

(***************************************************************************)
(* Bytes                                                                   *)
(***************************************************************************)
\* The printable ASCII characters in code order; Ascii[i] has code 31 + i.
Ascii ==
  << " ", "!", "dquote", "#", "$", "%", "&", "'", "(", ")", "*", "+", ",", "-", ".", "/",
     "0", "1", "2", "3", "4", "5", "6", "7", "8", "9", ":", ";", "<", "=", ">", "?",
     "@", "A", "B", "C", "D", "E", "F", "G", "H", "I", "J", "K", "L", "M", "N", "O",
     "P", "Q", "R", "S", "T", "U", "V", "W", "X", "Y", "Z", "[", "backslash", "]", "^", "_",
     "backtick", "a", "b", "c", "d", "e", "f", "g", "h", "i", "j", "k", "l", "m", "n", "o",
     "p", "q", "r", "s", "t", "u", "v", "w", "x", "y", "z", "{", "|", "}", "~" >>

Ord(c) == 31 + (CHOOSE i \in 1..Len(Ascii) : Ascii[i] = c)

\* The byte string of a tuple of one-character strings.
B(cs) == [i \in 1..Len(cs) |-> Ord(cs[i])]

\* space, tab, newline, carriage return
IsWs(b) == b \in {32, 9, 10, 13}

IsDigit(b) == ~(b < 48 \/ b > 57)

\* &s[from..]  (from is a 0-based offset)
Tail0(s, from) == SubSeq(s, from + 1, Len(s))

\* &s[..to]
Head0(s, to) == SubSeq(s, 1, to)

trim(s) ==
  LET start == CHOOSE i \in 1..(Len(s) + 1) :
                 /\ \A j \in 1..(i - 1) : IsWs(s[j])
                 /\ (i = Len(s) + 1 \/ ~IsWs(s[i]))
      end   == CHOOSE e \in (start - 1)..Len(s) :
                 /\ \A j \in (e + 1)..Len(s) : IsWs(s[j])
                 /\ (e = start - 1 \/ ~IsWs(s[e]))
  IN  SubSeq(s, start, end)

starts_with(haystack, needle) ==
  Len(haystack) >= Len(needle) /\ Head0(haystack, Len(needle)) = needle

\* Variant, wrong on purpose: the remainder keeps its leading whitespace.
split_first_space_untrimmed(s) ==
  IF \E i \in 1..Len(s) : s[i] \in {32, 9}
  THEN LET i == CHOOSE k \in 1..Len(s) :
                  s[k] \in {32, 9} /\ \A j \in 1..(k - 1) : s[j] \notin {32, 9}
       IN  << Head0(s, i - 1), Tail0(s, i) >>
  ELSE << s, << >> >>

\* (first token, trimmed remainder): the split is at the first space or tab.
split_first_space(s) ==
  IF \E i \in 1..Len(s) : s[i] \in {32, 9}
  THEN LET i == CHOOSE k \in 1..Len(s) :
                  s[k] \in {32, 9} /\ \A j \in 1..(k - 1) : s[j] \notin {32, 9}
       IN  << Head0(s, i - 1), trim(Tail0(s, i)) >>
  ELSE << s, << >> >>

(***************************************************************************)
(* 64-bit unsigned integers as limbs                                       *)
(***************************************************************************)
LimbBase == 256 * 256

U64(n) == << n % LimbBase, n \div LimbBase, 0, 0 >>

Zero64 == U64(0)

\* n.wrapping_mul(10).wrapping_add(d): the carry out of the top limb is lost.
WrappingMulAdd10(n, d) ==
  LET t0 == n[1] * 10 + d
      t1 == n[2] * 10 + t0 \div LimbBase
      t2 == n[3] * 10 + t1 \div LimbBase
      t3 == n[4] * 10 + t2 \div LimbBase
  IN  << t0 % LimbBase, t1 % LimbBase, t2 % LimbBase, t3 % LimbBase >>

\* (n / 10, n % 10)
DivMod10(n) ==
  LET c4 == n[4]
      c3 == (c4 % 10) * LimbBase + n[3]
      c2 == (c3 % 10) * LimbBase + n[2]
      c1 == (c2 % 10) * LimbBase + n[1]
  IN  << << c1 \div 10, c2 \div 10, c3 \div 10, c4 \div 10 >>, c1 % 10 >>

\* n as i32: the low 32 bits, read as a signed integer.
AsI32(n) ==
  IF n[2] >= 32768 THEN (n[2] - LimbBase) * LimbBase + n[1]
                   ELSE n[2] * LimbBase + n[1]

\* n as u16
AsU16(n) == n[1]

\* An Option<u64> / Option<i64>.
None == [some |-> FALSE, v |-> Zero64]

Some(x) == [some |-> TRUE, v |-> x]

RECURSIVE parse_u64_loop(_, _, _)
parse_u64_loop(s, i, n) ==
  IF i > Len(s) THEN Some(n)
  ELSE IF s[i] < 48 \/ s[i] > 57 THEN None
  ELSE parse_u64_loop(s, i + 1, WrappingMulAdd10(n, s[i] - 48))

parse_u64(s) ==
  IF s = << >> THEN None ELSE parse_u64_loop(s, 1, Zero64)

\* Option<i32>, the value as a model integer.
parse_i32(s) ==
  LET r == parse_u64(s)
  IN  [some |-> r.some, v |-> AsI32(r.v)]

\* The decimal digits print_u64 prints, most significant first.
RECURSIVE print_u64_loop(_)
print_u64_loop(n) ==
  IF n = Zero64 THEN << >>
  ELSE LET qr == DivMod10(n)
       IN  Append(print_u64_loop(qr[1]), 48 + qr[2])

print_u64(n) ==
  IF n = Zero64 THEN << 48 >> ELSE print_u64_loop(n)

(***************************************************************************)
(* The name registry of the host (mk_lookup) and the target resolver       *)
(***************************************************************************)
ACTOR_ID_INVALID == Zero64

N_echo    == B(<< "e", "c", "h", "o" >>)
N_42      == B(<< "4", "2" >>)
N_console == B(<< "c", "o", "n", "s", "o", "l", "e" >>)
N_kv      == B(<< "/", "n", "o", "d", "e", "/", "s", "t", "o", "r", "a", "g", "e", "/", "k", "v" >>)
N_caps    == B(<< "/", "n", "o", "d", "e", "/", "n", "1", "/", "c", "a", "p", "s" >>)

\* The identities the registries bind.
ID_echo    == U64(9)
ID_alias42 == U64(7)
ID_console == U64(2)
ID_kv      == U64(3)
ID_caps    == U64(4)

\* A registry is a set of <<name, identity>> pairs with distinct names.
RegFull == { << N_echo, ID_echo >>, << N_42, ID_alias42 >>,
             << N_console, ID_console >>, << N_kv, ID_kv >>, << N_caps, ID_caps >> }

RegBare == { << N_echo, ID_echo >> }

Registries == { RegFull, RegBare }

\* mk_lookup: the identity bound to the name, or ACTOR_ID_INVALID.
mk_lookup(registry, name) ==
  IF \E p \in registry : p[1] = name
  THEN (CHOOSE p \in registry : p[1] = name)[2]
  ELSE ACTOR_ID_INVALID

\* Variant, wrong on purpose: the numeric parse is tried before the name lookup.
resolve_target_numeric_first(registry, arg) ==
  LET n == parse_u64(arg)
  IN  IF n.some THEN n
      ELSE LET id == mk_lookup(registry, arg)
           IN  IF id # ACTOR_ID_INVALID THEN Some(id) ELSE None

resolve_target(registry, arg) ==
  LET id == mk_lookup(registry, arg)
  IN  IF id # ACTOR_ID_INVALID THEN Some(id) ELSE parse_u64(arg)

(***************************************************************************)
(* Message types (32-bit patterns read as i32) and buffer sizes            *)
(***************************************************************************)
MSG_SHELL_INPUT         == 100
MSG_SPAWN_RESPONSE      == 103
MSG_SPAWN_REQUEST_NAMED == 104
MSG_MOUNT_REQUEST       == 105
MSG_MOUNT_RESPONSE      == 106
\* 0xFF00001D and 0xFF00001E
MSG_CAPS_REQUEST        == -16777187
MSG_CAPS_REPLY          == -16777186
MSG_CF_KV_PUT           == 300
MSG_CF_KV_GET           == 301
MSG_CF_KV_DELETE        == 302
MSG_CF_KV_LIST          == 303
MSG_CF_OK               == 310
MSG_CF_VALUE            == 311
MSG_CF_KEYS             == 313
MSG_CF_NOT_FOUND        == 315
MSG_CF_ERROR            == 316

INPUT_BUF_SIZE == 1024
FILE_BUF_SIZE  == 32768

(***************************************************************************)
(* What a handler does: the lines it prints, the host calls it makes and   *)
(* the deadline-bound receive it blocks in, if any                         *)
(***************************************************************************)
\* One printed report: its fixed text and the values printed with it
\* (numbers n and m, bytes b, an identity id).
Out(tag, n, m, b, id) == [tag |-> tag, n |-> n, m |-> m, b |-> b, id |-> id]

Say(tag) == Out(tag, 0, 0, << >>, Zero64)

SayBytes(tag, b) == Out(tag, 0, 0, b, Zero64)

SayId(tag, id) == Out(tag, 0, 0, << >>, id)

\* One mk_send: who issued it, its arguments, and whether the host delivered it.
\* fill counts the zero-valued bytes that follow payload (a large module body).
Send(by, dest, type, payload, ok) ==
  [by |-> by, dest |-> dest, type |-> type, payload |-> payload, fill |-> 0, ok |-> ok]

\* wait = "none": the handler returned.  Otherwise it blocks in mk_recv_timeout.
\* stops: the identities passed to mk_stop.  handler: the cmd_* function run.
\* keys / pos: the key list copied to FILE_BUF and the position in it.
Eff(outs, sends, wait) ==
  [outs |-> outs, sends |-> sends, wait |-> wait, stops |-> << >>,
   keys |-> << >>, pos |-> 0, handler |-> "none"]

Returned(outs) == Eff(outs, << >>, "none")

\* The host's answers to the calls of one step: fail holds the indices of the
\* step's mk_send calls that are not delivered (k = 1 is the first send of the
\* step), rc is the status of its other host call.
HostOk(h, k) == k \notin h.fail

\* A received message.  re and late are history: the request it answers
\* (0: none) and whether that request's wait had ended when it was queued.
Msg(type, src, payload, re, late) ==
  [type |-> type, src |-> src, payload |-> payload, re |-> re, late |-> late]

NoMsg == Msg(0, Zero64, << >>, 0, FALSE)

Min(a, b) == IF a < b THEN a ELSE b

(***************************************************************************)
(* Handlers without a receive                                              *)
(***************************************************************************)
cmd_help == Returned(<< Say("Commands:") >>)

cmd_list(h) ==
  IF h.rc < 0 THEN Returned(<< Say("error: mk_list_actors failed") >>)
  ELSE Returned(<< Say("Active actors (") >>)

cmd_ns_list(prefix, h) ==
  IF h.rc < 0 THEN Returned(<< Say("error: ns_list failed") >>)
  ELSE Returned(<< SayBytes("ns_list", prefix) >>)

cmd_whoami == Returned(<< Say("Actor ID: ") >>)

cmd_self_id == Returned(<< Say("Self: ") >>)

UnknownTarget(token) == SayBytes("error: unknown target '", token)

cmd_send(registry, arg, h) ==
  LET t1 == split_first_space(arg)
      target_str == t1[1]
      rest == t1[2]
  IN  IF target_str = << >>
      THEN Returned(<< Say("usage: send <name-or-id> <type> [payload]") >>)
      ELSE LET dest == resolve_target(registry, target_str)
           IN  IF ~dest.some THEN Returned(<< UnknownTarget(target_str) >>)
               ELSE LET t2 == split_first_space(rest)
                        type_str == t2[1]
                        payload == t2[2]
                    IN  IF type_str = << >>
                        THEN Returned(<< Say("usage: send <name-or-id> <type> [payload]") >>)
                        ELSE LET msg_type == parse_i32(type_str)
                             IN  IF ~msg_type.some
                                 THEN Returned(<< Say("error: invalid message type") >>)
                                 ELSE Eff(<< IF HostOk(h, 1)
                                             THEN Out("Sent type=", msg_type.v, 0, << >>, dest.v)
                                             ELSE Say("error: send failed") >>,
                                          << Send("cmd_send", dest.v, msg_type.v, payload, HostOk(h, 1)) >>,
                                          "none")

cmd_stop(registry, arg) ==
  IF arg = << >> THEN Returned(<< Say("usage: stop <name-or-id>") >>)
  ELSE LET id == resolve_target(registry, arg)
       IN  IF ~id.some THEN Returned(<< UnknownTarget(arg) >>)
           ELSE [Returned(<< SayId("Stopped actor ", id.v) >>) EXCEPT !.stops = << id.v >>]

cmd_register(arg, h) ==
  IF arg = << >> THEN Returned(<< Say("usage: register <name>") >>)
  ELSE IF h.rc = 0 THEN Returned(<< SayBytes("Registered as '", arg) >>)
  ELSE Returned(<< Say("error: register failed") >>)

cmd_lookup(registry, arg) ==
  IF arg = << >> THEN Returned(<< Say("usage: lookup <name>") >>)
  ELSE LET id == mk_lookup(registry, arg)
       IN  IF id = ACTOR_ID_INVALID THEN Returned(<< Say("Not found") >>)
           ELSE Returned(<< SayId("Actor ", id) >>)

(***************************************************************************)
(* call: send, then one deadline-bound receive                             *)
(***************************************************************************)
cmd_call(registry, arg, h) ==
  LET t1 == split_first_space(arg)
      target_str == t1[1]
      rest == t1[2]
  IN  IF target_str = << >>
      THEN Returned(<< Say("usage: call <name-or-id> <type> [payload]") >>)
      ELSE LET dest == resolve_target(registry, target_str)
           IN  IF ~dest.some THEN Returned(<< UnknownTarget(target_str) >>)
               ELSE LET t2 == split_first_space(rest)
                        type_str == t2[1]
                        payload == t2[2]
                    IN  IF type_str = << >>
                        THEN Returned(<< Say("usage: call <name-or-id> <type> [payload]") >>)
                        ELSE LET msg_type == parse_i32(type_str)
                             IN  IF ~msg_type.some
                                 THEN Returned(<< Say("error: invalid message type") >>)
                                 ELSE IF ~HostOk(h, 1)
                                 THEN Eff(<< Say("error: send failed") >>,
                                          << Send("cmd_call", dest.v, msg_type.v, payload, FALSE) >>,
                                          "none")
                                 ELSE Eff(<< >>,
                                          << Send("cmd_call", dest.v, msg_type.v, payload, TRUE) >>,
                                          "call")

\* print_msg_payload: at most 64 bytes are shown.
PayloadPreview(m) == Head0(m.payload, Min(Min(Len(m.payload), INPUT_BUF_SIZE), 64))

\* Variant, wrong on purpose: every negative status is reported as a failed receive.
cmd_call_reply_no_timeout(rc, m) ==
  IF rc < 0 THEN Returned(<< Say("error: recv failed") >>)
  ELSE Returned(<< Out("[reply] type=", m.type, Len(m.payload), PayloadPreview(m), m.src) >>)

\* Variant, wrong on purpose: only a message from an actor other than the console's own
\* input source (a non-operator message) is reported as the reply.
cmd_call_reply_filtered(rc, m) ==
  IF rc = -2 THEN Returned(<< Say("Timeout (5s)") >>)
  ELSE IF rc < 0 THEN Returned(<< Say("error: recv failed") >>)
  ELSE IF m.type = MSG_SHELL_INPUT \/ m.type = MSG_SPAWN_RESPONSE
  THEN Returned(<< Say("Timeout (5s)") >>)
  ELSE Returned(<< Out("[reply] type=", m.type, Len(m.payload), PayloadPreview(m), m.src) >>)

\* cmd_call after mk_recv_timeout returned rc (and, for rc >= 0, message m).
cmd_call_reply(rc, m) ==
  IF rc = -2 THEN Returned(<< Say("Timeout (5s)") >>)
  ELSE IF rc < 0 THEN Returned(<< Say("error: recv failed") >>)
  ELSE Returned(<< Out("[reply] type=", m.type, Len(m.payload), PayloadPreview(m), m.src) >>)

(***************************************************************************)
(* mount                                                                   *)
(***************************************************************************)
RECURSIVE parse_u16_loop(_, _, _)
parse_u16_loop(s, i, n) ==
  IF i > Len(s) THEN n
  ELSE IF s[i] < 48 \/ s[i] > 57 THEN n
  ELSE parse_u16_loop(s, i + 1, (n * 10 + (s[i] - 48)) % 65536)

parse_u16(s) == parse_u16_loop(s, 1, 0)

M_default_port == 4200

M_host_cap == 250

\* (host, port): the split at the first ':'.
MountHostPort(arg) ==
  IF \E i \in 1..Len(arg) : arg[i] = 58
  THEN LET pos == CHOOSE i \in 1..Len(arg) :
                    arg[i] = 58 /\ \A j \in 1..(i - 1) : arg[j] # 58
       IN  << Head0(arg, pos - 1), parse_u16(Tail0(arg, pos)) >>
  ELSE << arg, M_default_port >>

\* host_len(1) + host + port_le(2)
MountPayload(host, port) ==
  LET hlen == Min(Len(host), M_host_cap)
  IN  << hlen >> \o Head0(host, hlen) \o << port % 256, port \div 256 >>

cmd_mount(registry, arg, h) ==
  IF arg = << >> THEN Returned(<< Say("Usage: mount <host>[:<port>]") >>)
  ELSE LET hp == MountHostPort(arg)
           console_id == mk_lookup(registry, N_console)
       IN  IF console_id = Zero64 THEN Returned(<< Say("error: console not found") >>)
           ELSE Eff(<< Say("Connecting...") >>,
                    << Send("cmd_mount", console_id, MSG_MOUNT_REQUEST,
                            MountPayload(hp[1], hp[2]), HostOk(h, 1)) >>,
                    "mount")

M_ident_cap == 31

\* cmd_mount after mk_recv_timeout returned; the received type is not read.
cmd_mount_reply(rc, m) ==
  IF rc = -2 THEN Returned(<< Say("Timeout") >>)
  ELSE IF rc < 0 \/ Len(m.payload) < 1 THEN Returned(<< Say("error: mount failed") >>)
  ELSE IF m.payload[1] = 0 /\ Len(m.payload) > 1
  THEN Returned(<< SayBytes("Mounted /node/",
                            SubSeq(m.payload, 2, 1 + Min(Len(m.payload) - 1, M_ident_cap))) >>)
  ELSE Returned(<< Say("error: connection failed") >>)

(***************************************************************************)
(* caps                                                                    *)
(***************************************************************************)
P_node == B(<< "/", "n", "o", "d", "e", "/" >>)
P_caps == B(<< "/", "c", "a", "p", "s" >>)

\* The target of caps: an Option; outs holds the error printed when it is None.
CapsTarget(registry, arg, h) ==
  IF arg = << >>
  THEN IF Len(h.node) <= 0
       THEN [t |-> None, outs |-> << Say("error: cannot get node identity") >>]
       ELSE LET n == Min(Len(h.node), INPUT_BUF_SIZE)
                path == P_node \o Head0(h.node, n) \o P_caps
                id == mk_lookup(registry, path)
            IN  IF Len(path) > FILE_BUF_SIZE
                THEN [t |-> None, outs |-> << Say("error: path too long") >>]
                ELSE IF id = ACTOR_ID_INVALID
                THEN [t |-> None, outs |-> << SayBytes("error: caps actor not found at ", path) >>]
                ELSE [t |-> Some(id), outs |-> << >>]
  ELSE LET r == resolve_target(registry, arg)
       IN  IF r.some THEN [t |-> r, outs |-> << >>]
           ELSE [t |-> None, outs |-> << UnknownTarget(arg) >>]

cmd_caps(registry, arg, h) ==
  LET target == CapsTarget(registry, arg, h)
  IN  IF ~target.t.some THEN Returned(target.outs)
      ELSE IF ~HostOk(h, 1)
      THEN Eff(<< Say("error: send failed") >>,
               << Send("cmd_caps", target.t.v, MSG_CAPS_REQUEST, << >>, FALSE) >>, "none")
      ELSE Eff(<< >>,
               << Send("cmd_caps", target.t.v, MSG_CAPS_REQUEST, << >>, TRUE) >>, "caps")

cmd_caps_reply(rc, m) ==
  IF rc = -2 THEN Returned(<< Say("Timeout (5s)") >>)
  ELSE IF rc < 0 THEN Returned(<< Say("error: recv failed") >>)
  ELSE IF m.type = MSG_CAPS_REPLY
  THEN Returned(<< SayBytes("caps", Head0(m.payload, Min(Len(m.payload), INPUT_BUF_SIZE))) >>)
  ELSE Returned(<< Out("Unexpected reply type=", m.type, 0, << >>, Zero64) >>)

(***************************************************************************)
(* history                                                                 *)
(***************************************************************************)
find_kv_proxy(registry) == mk_lookup(registry, N_kv)

P_key_history == B(<< "k", "e", "y", "=", "h", "i", "s", "t", "o", "r", "y", "/" >>)
P_value       == B(<< "v", "a", "l", "u", "e", "=" >>)
P_key         == B(<< "k", "e", "y", "=" >>)
P_list20      == B(<< "p","r","e","f","i","x","=","h","i","s","t","o","r","y","/" >>)
                   \o << 10 >> \o B(<< "l","i","m","i","t","=","2","0" >>)
P_list100     == B(<< "p","r","e","f","i","x","=","h","i","s","t","o","r","y","/" >>)
                   \o << 10 >> \o B(<< "l","i","m","i","t","=","1","0","0" >>)
P_history     == B(<< "h", "i", "s", "t", "o", "r", "y" >>)

\* hex[nibble] of b"0123456789abcdef"
HexDigit(nibble) == IF nibble < 10 THEN 48 + nibble ELSE 87 + nibble

\* The four hex digits of one limb, most significant first.
HexLimb(l) ==
  << HexDigit(l \div 4096), HexDigit((l \div 256) % 16),
     HexDigit((l \div 16) % 16), HexDigit(l % 16) >>

\* Variant, wrong on purpose: least significant limb first.
Hex16_low_first(ts) == HexLimb(ts[1]) \o HexLimb(ts[2]) \o HexLimb(ts[3]) \o HexLimb(ts[4])

\* The timestamp as 16 hex characters, zero-padded.
Hex16(ts) == HexLimb(ts[4]) \o HexLimb(ts[3]) \o HexLimb(ts[2]) \o HexLimb(ts[1])

\* The sends of history_record(line): none when the KV actor does not resolve.
\* k is the index of the send in the step.
history_record(registry, line, h, k) ==
  LET kv == find_kv_proxy(registry)
      head == P_key_history \o Hex16(h.ts) \o << 10 >> \o P_value
      cmd_len == Min(Len(line), FILE_BUF_SIZE - Len(head))
  IN  IF kv = ACTOR_ID_INVALID THEN << >>
      ELSE << Send("history_record", kv, MSG_CF_KV_PUT,
                   head \o Head0(line, cmd_len), HostOk(h, k)) >>

\* The end of the key that starts at offset pos: the offset of the next
\* newline, or the length of the list.
KeyEnd(keys, pos) ==
  CHOOSE e \in pos..Len(keys) :
    /\ (e = Len(keys) \/ keys[e + 1] = 10)
    /\ \A j \in pos..(e - 1) : keys[j + 1] # 10

\* The fetch loop of cmd_history from offset pos on: it runs until a GET has
\* been sent (and then blocks for its reply) or the list is exhausted.
RECURSIVE HistFetch(_, _, _, _, _, _)
HistFetch(kv, keys, pos, h, k, sends) ==
  IF ~(pos < Len(keys)) THEN Eff(<< >>, sends, "none")
  ELSE LET end == KeyEnd(keys, pos)
       IN  IF end = pos THEN HistFetch(kv, keys, end + 1, h, k, sends)
           ELSE LET key == SubSeq(keys, pos + 1, end)
                    total == Len(P_key) + Len(key)
                    get == Send("cmd_history", kv, MSG_CF_KV_GET, P_key \o key, HostOk(h, k))
                IN  IF total <= INPUT_BUF_SIZE
                    THEN IF HostOk(h, k)
                         THEN [Eff(<< >>, Append(sends, get), "hget")
                                 EXCEPT !.keys = keys, !.pos = end + 1]
                         ELSE HistFetch(kv, keys, end + 1, h, k + 1, Append(sends, get))
                    ELSE HistFetch(kv, keys, end + 1, h, k, sends)

cmd_history(registry, h) ==
  LET kv == find_kv_proxy(registry)
  IN  IF kv = ACTOR_ID_INVALID
      THEN Returned(<< Say("error: /node/storage/kv not available") >>)
      ELSE IF ~HostOk(h, 1)
      THEN Eff(<< Say("error: send failed") >>,
               << Send("cmd_history", kv, MSG_CF_KV_LIST, P_list20, FALSE) >>, "none")
      ELSE Eff(<< >>, << Send("cmd_history", kv, MSG_CF_KV_LIST, P_list20, TRUE) >>, "hlist")

\* Variant, wrong on purpose: every non-empty reply is read as a key list.
cmd_history_list_reply_any_type(registry, rc, m, h) ==
  IF rc = -2 THEN Returned(<< Say("Timeout") >>)
  ELSE IF rc < 0 THEN Returned(<< Say("error: recv failed") >>)
  ELSE IF Len(m.payload) = 0 THEN Returned(<< Say("(no history)") >>)
  ELSE HistFetch(find_kv_proxy(registry),
                 Head0(m.payload, Min(Min(Len(m.payload), INPUT_BUF_SIZE), FILE_BUF_SIZE)),
                 0, h, 1, << >>)

\* cmd_history after the receive of the LIST reply.
cmd_history_list_reply(registry, rc, m, h) ==
  IF rc = -2 THEN Returned(<< Say("Timeout") >>)
  ELSE IF rc < 0 THEN Returned(<< Say("error: recv failed") >>)
  ELSE IF m.type = MSG_CF_NOT_FOUND \/ Len(m.payload) = 0
  THEN Returned(<< Say("(no history)") >>)
  ELSE IF m.type # MSG_CF_KEYS THEN Returned(<< Say("(no history)") >>)
  ELSE HistFetch(find_kv_proxy(registry),
                 Head0(m.payload, Min(Min(Len(m.payload), INPUT_BUF_SIZE), FILE_BUF_SIZE)),
                 0, h, 1, << >>)

\* Variant, wrong on purpose: the fetch loop starts over after each reply.
cmd_history_get_reply_restarts(registry, keys, pos, rc, m, h) ==
  LET shown == IF rc >= 0 /\ m.type = MSG_CF_VALUE /\ Len(m.payload) > 0
               THEN << SayBytes("  ", Head0(m.payload, Min(Len(m.payload), INPUT_BUF_SIZE))) >>
               ELSE << >>
      more == HistFetch(find_kv_proxy(registry), keys, 0, h, 1, << >>)
  IN  [more EXCEPT !.outs = shown \o more.outs]

\* cmd_history after the receive of one GET reply, then on to the next key.
cmd_history_get_reply(registry, keys, pos, rc, m, h) ==
  LET shown == IF rc >= 0 /\ m.type = MSG_CF_VALUE /\ Len(m.payload) > 0
               THEN << SayBytes("  ", Head0(m.payload, Min(Len(m.payload), INPUT_BUF_SIZE))) >>
               ELSE << >>
      more == HistFetch(find_kv_proxy(registry), keys, pos, h, 1, << >>)
  IN  [more EXCEPT !.outs = shown \o more.outs]

\* The delete loop of cmd_history_clear: (sends, count).
RECURSIVE ClearLoop(_, _, _, _, _, _, _)
ClearLoop(kv, keys, pos, h, k, sends, count) ==
  IF ~(pos < Len(keys)) THEN << sends, count >>
  ELSE LET end == KeyEnd(keys, pos)
       IN  IF end = pos THEN ClearLoop(kv, keys, end + 1, h, k, sends, count)
           ELSE LET key == SubSeq(keys, pos + 1, end)
                    total == Len(P_key) + Len(key)
                    del == Send("cmd_history_clear", kv, MSG_CF_KV_DELETE,
                                P_key \o key, HostOk(h, k))
                IN  IF total <= INPUT_BUF_SIZE
                    THEN ClearLoop(kv, keys, end + 1, h, k + 1, Append(sends, del), count + 1)
                    ELSE ClearLoop(kv, keys, end + 1, h, k, sends, count)

cmd_history_clear(registry, h) ==
  LET kv == find_kv_proxy(registry)
  IN  IF kv = ACTOR_ID_INVALID
      THEN Returned(<< Say("error: /node/storage/kv not available") >>)
      ELSE IF ~HostOk(h, 1)
      THEN Eff(<< Say("error: send failed") >>,
               << Send("cmd_history_clear", kv, MSG_CF_KV_LIST, P_list100, FALSE) >>, "none")
      ELSE Eff(<< >>, << Send("cmd_history_clear", kv, MSG_CF_KV_LIST, P_list100, TRUE) >>,
               "hclear")

cmd_history_clear_reply(registry, rc, m, h) ==
  IF rc = -2 THEN Returned(<< Say("Timeout") >>)
  ELSE IF rc < 0 THEN Returned(<< Say("error: recv failed") >>)
  ELSE IF m.type # MSG_CF_KEYS \/ Len(m.payload) = 0
  THEN Returned(<< Say("(no history to clear)") >>)
  ELSE LET keys == Head0(m.payload, Min(Min(Len(m.payload), INPUT_BUF_SIZE), FILE_BUF_SIZE))
           r == ClearLoop(find_kv_proxy(registry), keys, 0, h, 1, << >>, 0)
       IN  Eff(<< Out("Deleted ", r[2], 0, << >>, Zero64) >>, r[1], "none")

(***************************************************************************)
(* load and the spawn response                                             *)
(***************************************************************************)
S_wasm  == B(<< ".", "w", "a", "s", "m" >>)
S_http  == B(<< "h", "t", "t", "p", ":", "/", "/" >>)
S_https == B(<< "h", "t", "t", "p", "s", ":", "/", "/" >>)

extract_name(path) ==
  LET start == IF \E i \in 1..Len(path) : path[i] = 47
               THEN CHOOSE i \in 1..Len(path) :
                      path[i] = 47 /\ \A j \in (i + 1)..Len(path) : path[j] # 47
               ELSE 0
      filename == Tail0(path, start)
      end == IF \E i \in 1..Len(filename) : filename[i] = 63
             THEN (CHOOSE i \in 1..Len(filename) :
                     filename[i] = 63 /\ \A j \in 1..(i - 1) : filename[j] # 63) - 1
             ELSE Len(filename)
      cut == Head0(filename, end)
  IN  IF Len(cut) > 5 /\ Tail0(cut, Len(cut) - 5) = S_wasm
      THEN Head0(cut, Len(cut) - 5)
      ELSE cut

L_name_cap == 63

\* Variant, wrong on purpose: the HTTP status is not looked at.
cmd_load_any_status(registry, arg, h) ==
  LET is_url == starts_with(arg, S_http) \/ starts_with(arg, S_https)
      size_out == Len(h.file.data) + h.file.fill
      fetched == IF is_url THEN Out("Downloaded ", size_out, 0, << >>, Zero64)
                 ELSE Out("Read ", size_out, 0, << >>, Zero64)
      name == extract_name(arg)
      name_len == IF Len(name) > L_name_cap THEN L_name_cap ELSE Len(name)
      prefix_len == 1 + name_len
      console == mk_lookup(registry, N_console)
      spawn == [Send("cmd_load", console, MSG_SPAWN_REQUEST_NAMED,
                     << name_len >> \o Head0(name, name_len) \o h.file.data, HostOk(h, 1))
                  EXCEPT !.fill = h.file.fill]
  IN  IF arg = << >> THEN Returned(<< Say("usage: load <path-or-url>") >>)
      ELSE IF is_url /\ h.rc < 0 THEN Returned(<< Say("error: HTTP GET failed") >>)
      ELSE IF ~is_url /\ h.rc < 0 THEN Returned(<< Say("error: cannot read file") >>)
      ELSE IF size_out = 0 THEN Returned(<< fetched, Say("error: empty file/response") >>)
      ELSE IF size_out + prefix_len > FILE_BUF_SIZE
      THEN Returned(<< fetched, Say("error: file too large for name prefix") >>)
      ELSE IF console = ACTOR_ID_INVALID
      THEN Returned(<< fetched, Say("error: console actor not found") >>)
      ELSE Eff(<< fetched, IF HostOk(h, 1) THEN Say("Loading...")
                           ELSE Say("error: failed to send spawn request") >>,
               << spawn >>, "none")

\* Variant, wrong on purpose: the prefix is written over the module's first
\* bytes instead of in front of them.
cmd_load_unshifted(registry, arg, h) ==
  LET is_url == starts_with(arg, S_http) \/ starts_with(arg, S_https)
      size_out == Len(h.file.data) + h.file.fill
      fetched == IF is_url THEN Out("Downloaded ", size_out, 0, << >>, Zero64)
                 ELSE Out("Read ", size_out, 0, << >>, Zero64)
      name == extract_name(arg)
      name_len == IF Len(name) > L_name_cap THEN L_name_cap ELSE Len(name)
      prefix_len == 1 + name_len
      console == mk_lookup(registry, N_console)
      spawn == [Send("cmd_load", console, MSG_SPAWN_REQUEST_NAMED,
                     << name_len >> \o Head0(name, name_len) \o Tail0(h.file.data, prefix_len), HostOk(h, 1))
                  EXCEPT !.fill = h.file.fill]
  IN  IF arg = << >> THEN Returned(<< Say("usage: load <path-or-url>") >>)
      ELSE IF is_url /\ h.rc < 0 THEN Returned(<< Say("error: HTTP GET failed") >>)
      ELSE IF is_url /\ h.status # 200
      THEN Returned(<< Out("error: HTTP ", h.status, 0, << >>, Zero64) >>)
      ELSE IF ~is_url /\ h.rc < 0 THEN Returned(<< Say("error: cannot read file") >>)
      ELSE IF size_out = 0 THEN Returned(<< fetched, Say("error: empty file/response") >>)
      ELSE IF size_out + prefix_len > FILE_BUF_SIZE
      THEN Returned(<< fetched, Say("error: file too large for name prefix") >>)
      ELSE IF console = ACTOR_ID_INVALID
      THEN Returned(<< fetched, Say("error: console actor not found") >>)
      ELSE Eff(<< fetched, IF HostOk(h, 1) THEN Say("Loading...")
                           ELSE Say("error: failed to send spawn request") >>,
               << spawn >>, "none")

\* h.file is what the fetch left in FILE_BUF: data followed by fill zero bytes.
cmd_load(registry, arg, h) ==
  LET is_url == starts_with(arg, S_http) \/ starts_with(arg, S_https)
      size_out == Len(h.file.data) + h.file.fill
      fetched == IF is_url THEN Out("Downloaded ", size_out, 0, << >>, Zero64)
                 ELSE Out("Read ", size_out, 0, << >>, Zero64)
      name == extract_name(arg)
      name_len == IF Len(name) > L_name_cap THEN L_name_cap ELSE Len(name)
      prefix_len == 1 + name_len
      console == mk_lookup(registry, N_console)
      spawn == [Send("cmd_load", console, MSG_SPAWN_REQUEST_NAMED,
                     << name_len >> \o Head0(name, name_len) \o h.file.data, HostOk(h, 1))
                  EXCEPT !.fill = h.file.fill]
  IN  IF arg = << >> THEN Returned(<< Say("usage: load <path-or-url>") >>)
      ELSE IF is_url /\ h.rc < 0 THEN Returned(<< Say("error: HTTP GET failed") >>)
      ELSE IF is_url /\ h.status # 200
      THEN Returned(<< Out("error: HTTP ", h.status, 0, << >>, Zero64) >>)
      ELSE IF ~is_url /\ h.rc < 0 THEN Returned(<< Say("error: cannot read file") >>)
      ELSE IF size_out = 0 THEN Returned(<< fetched, Say("error: empty file/response") >>)
      ELSE IF size_out + prefix_len > FILE_BUF_SIZE
      THEN Returned(<< fetched, Say("error: file too large for name prefix") >>)
      ELSE IF console = ACTOR_ID_INVALID
      THEN Returned(<< fetched, Say("error: console actor not found") >>)
      ELSE Eff(<< fetched, IF HostOk(h, 1) THEN Say("Loading...")
                           ELSE Say("error: failed to send spawn request") >>,
               << spawn >>, "none")

\* i64::from_ne_bytes of the first eight bytes (little-endian on wasm32).
I64FromBytes(p) ==
  << p[1] + 256 * p[2], p[3] + 256 * p[4], p[5] + 256 * p[6], p[7] + 256 * p[8] >>

\* The report of handle_spawn_response for a message's payload.
handle_spawn_response(payload) ==
  IF Len(payload) < 8 THEN << Say("error: spawn failed (bad response)") >>
  ELSE LET id == I64FromBytes(payload)
           name_len == Len(payload) - 8
           copy_len == IF name_len > L_name_cap THEN L_name_cap ELSE name_len
       IN  IF id = ACTOR_ID_INVALID THEN << Say("error: spawn failed") >>
           ELSE << Out("Spawned actor ", 0, 0, SubSeq(payload, 9, 8 + copy_len), id) >>

(***************************************************************************)
(* dispatch_command                                                        *)
(***************************************************************************)
V_help     == B(<< "h", "e", "l", "p" >>)
V_qmark    == B(<< "?" >>)
V_list     == B(<< "l", "i", "s", "t" >>)
V_ls       == B(<< "l", "s" >>)
V_whoami   == B(<< "w", "h", "o", "a", "m", "i" >>)
V_load     == B(<< "l", "o", "a", "d" >>)
V_send     == B(<< "s", "e", "n", "d" >>)
V_call     == B(<< "c", "a", "l", "l" >>)
V_stop     == B(<< "s", "t", "o", "p" >>)
V_register == B(<< "r", "e", "g", "i", "s", "t", "e", "r" >>)
V_lookup   == B(<< "l", "o", "o", "k", "u", "p" >>)
V_self     == B(<< "s", "e", "l", "f" >>)
V_mount    == B(<< "m", "o", "u", "n", "t" >>)
V_caps     == B(<< "c", "a", "p", "s" >>)
V_history  == B(<< "h", "i", "s", "t", "o", "r", "y" >>)
V_clear    == B(<< "c", "l", "e", "a", "r" >>)
V_exit     == B(<< "e", "x", "i", "t" >>)
V_quit     == B(<< "q", "u", "i", "t" >>)

Ran(name, eff) == [eff EXCEPT !.handler = name]

dispatch_command(registry, line, h) ==
  LET trimmed == trim(line)
      t == split_first_space(trimmed)
      cmd == t[1]
      arg == t[2]
  IN  IF trimmed = << >> THEN Returned(<< >>)
      ELSE IF cmd = V_help \/ cmd = V_qmark THEN Ran("cmd_help", cmd_help)
      ELSE IF cmd = V_list THEN Ran("cmd_list", cmd_list(h))
      ELSE IF cmd = V_ls
      THEN IF arg # << >> /\ arg[1] = 47 THEN Ran("cmd_ns_list", cmd_ns_list(arg, h))
           ELSE Ran("cmd_list", cmd_list(h))
      ELSE IF cmd = V_whoami THEN Ran("cmd_whoami", cmd_whoami)
      ELSE IF cmd = V_load THEN Ran("cmd_load", cmd_load(registry, arg, h))
      ELSE IF cmd = V_send THEN Ran("cmd_send", cmd_send(registry, arg, h))
      ELSE IF cmd = V_call THEN Ran("cmd_call", cmd_call(registry, arg, h))
      ELSE IF cmd = V_stop THEN Ran("cmd_stop", cmd_stop(registry, arg))
      ELSE IF cmd = V_register THEN Ran("cmd_register", cmd_register(arg, h))
      ELSE IF cmd = V_lookup THEN Ran("cmd_lookup", cmd_lookup(registry, arg))
      ELSE IF cmd = V_self THEN Ran("cmd_self_id", cmd_self_id)
      ELSE IF cmd = V_mount THEN Ran("cmd_mount", cmd_mount(registry, arg, h))
      ELSE IF cmd = V_caps THEN Ran("cmd_caps", cmd_caps(registry, arg, h))
      ELSE IF cmd = V_history
      THEN IF arg = V_clear THEN Ran("cmd_history_clear", cmd_history_clear(registry, h))
           ELSE Ran("cmd_history", cmd_history(registry, h))
      ELSE IF cmd = V_exit \/ cmd = V_quit THEN Returned(<< >>)
      ELSE Returned(<< SayBytes("Unknown command: ", cmd) >>)

(***************************************************************************)
(* State                                                                   *)
(***************************************************************************)
VARIABLES
  reg,      \* the host's name registry
  pc,       \* where the console is blocked: "loop" (mk_recv_full), a handler's
            \* wait ("call", "caps", "mount", "hlist", "hget", "hclear"), "done"
  mailbox,  \* the console's inbound queue, oldest first
  line,     \* the trimmed command line being executed
  keysBuf,  \* cmd_history: the key list copied to FILE_BUF
  keysPos,  \* cmd_history: the offset of the next key in it
  waitReq,  \* the request the blocked handler sent last (its id)
  elapsed,  \* milliseconds spent in the current deadline-bound receive
  status,   \* "running", or "returned 0" once handle_message has returned
  out,      \* history: what was printed since the loop's last receive
  sent,     \* history: the mk_send calls since the loop's last receive
  stops,    \* history: the mk_stop calls since the loop's last receive
  ran,      \* history: the handler dispatch_command ran for the line
  taken,    \* history: the message the loop's last receive returned
  got,      \* history: the messages the handler's receives returned since
  open,     \* requests delivered to peers and not answered yet
  nextId,   \* the id of the next mk_send
  typed,    \* lines the operator has typed so far
  unsol,    \* unsolicited messages peers have sent so far
  tok,      \* resolver check: the token given to resolve_target
  res,      \* resolver check: its result
  rpc       \* resolver check: "idle" | "start" | "done"

replVars == << pc, mailbox, line, keysBuf, keysPos, waitReq, elapsed, status,
               out, sent, stops, ran, taken, got, open, nextId, typed, unsol >>

resolveVars == << tok, res, rpc >>

vars == << reg, replVars, resolveVars >>

(***************************************************************************)
(* The host and the peers                                                  *)
(***************************************************************************)
T_call   == 5000
T_mount  == 5000
T_caps   == 5000
T_hlist  == 5000
T_hclear == 5000
T_hget   == 3000

Deadline(wait) ==
  CASE wait = "call"   -> T_call
    [] wait = "mount"  -> T_mount
    [] wait = "caps"   -> T_caps
    [] wait = "hlist"  -> T_hlist
    [] wait = "hclear" -> T_hclear
    [] wait = "hget"   -> T_hget

Waits == { "call", "mount", "caps", "hlist", "hclear", "hget" }

\* What the fetch of load can leave in FILE_BUF.
F_small == [data |-> << 0, 97, 115, 109 >>, fill |-> 0]
F_empty == [data |-> << >>, fill |-> 0]
F_full  == [data |-> << 0, 97, 115, 109 >>, fill |-> FILE_BUF_SIZE - 4]

NodeName == B(<< "n", "1" >>)

\* mk_time_ms: 0x0000018bcfe56800
Clock == << 26624, 53221, 395, 0 >>

MaxSendsFailing == 1

HostDefault ==
  [fail |-> {}, rc |-> 0, status |-> 200, file |-> F_small, node |-> NodeName, ts |-> Clock]

\* The answers the host can give to the calls of one step.
HostChoices ==
  { [HostDefault EXCEPT !.fail = f] : f \in SUBSET (1..MaxSendsFailing) }
    \cup { [HostDefault EXCEPT !.rc = -1],
           [HostDefault EXCEPT !.status = 404],
           [HostDefault EXCEPT !.file = F_empty],
           [HostDefault EXCEPT !.file = F_full],
           [HostDefault EXCEPT !.node = << >>] }

K_two   == B(<< "h", "/", "a" >>) \o << 10, 10 >> \o B(<< "h", "/", "b" >>)
R_value == B(<< "l", "s" >>)
R_caps  == B(<< "w", "a", "s", "m" >>)
R_ident == B(<< "n", "2" >>)
R_echo  == B(<< "o", "k" >>)

\* The messages a peer can answer a delivered request with.
RepliesTo(r) ==
  LET M(type, payload) == Msg(type, r.dest, payload, r.id, r.timedOut)
  IN  CASE r.type \in { MSG_CF_KV_PUT, MSG_CF_KV_DELETE } -> { M(MSG_CF_OK, << >>) }
        [] r.type = MSG_CF_KV_LIST -> { M(MSG_CF_KEYS, K_two), M(MSG_CF_NOT_FOUND, << >>) }
        [] r.type = MSG_CF_KV_GET -> { M(MSG_CF_VALUE, R_value) }
        [] r.type = MSG_MOUNT_REQUEST ->
             { M(MSG_MOUNT_RESPONSE, << 0 >> \o R_ident), M(MSG_MOUNT_RESPONSE, << 1 >>),
               M(MSG_MOUNT_RESPONSE, << >>) }
        [] r.type = MSG_CAPS_REQUEST -> { M(MSG_CAPS_REPLY, R_caps) }
        [] r.type = MSG_SPAWN_REQUEST_NAMED ->
             { M(MSG_SPAWN_RESPONSE, << 11, 0, 0, 0, 0, 0, 0, 0 >> \o N_echo),
               M(MSG_SPAWN_RESPONSE, << 0, 0, 0, 0, 0, 0, 0, 0 >>) }
        [] OTHER -> { M(r.type, R_echo), M(r.type, << >>) }

ID_operator == U64(1)
ID_stranger == U64(5)

ShellInput(l) == Msg(MSG_SHELL_INPUT, ID_operator, l, 0, FALSE)

\* Messages no request of the console asked for.
Unsolicited == { Msg(7, ID_stranger, << 0, 120 >>, 0, FALSE) }

(***************************************************************************)
(* The REPL loop of handle_message and the handlers' receives              *)
(***************************************************************************)
Prompt == Say("mk> ")

C_copy_cap == 256

\* The loop's cmd_copy of the trimmed line.
CmdCopy(trimmed) == Head0(trimmed, Min(Len(trimmed), C_copy_cap))

\* The sends of the step, numbered from nextId on.
Numbered(sends) == [i \in 1..Len(sends) |-> [s |-> sends[i], id |-> nextId + i - 1]]

Requests(numbered) ==
  { [id |-> numbered[i].id, type |-> numbered[i].s.type, dest |-> numbered[i].s.dest,
     timedOut |-> FALSE] : i \in { j \in 1..Len(numbered) : numbered[j].s.ok } }

\* The rest of a step once the running handler has done eff: either the
\* handler blocks in its next receive, or it has returned to the loop, which
\* records the line (unless it starts with "history") and prompts again.
\* outs0 .. open0: what the step did and left before eff.
Proceed(trimmed, eff, h, outs0, sent0, stops0, open0) ==
  LET copy == CmdCopy(trimmed)
      rec == IF eff.wait = "none" /\ Len(copy) > 0 /\ ~starts_with(copy, P_history)
             THEN history_record(reg, copy, h, Len(eff.sends) + 1)
             ELSE << >>
      all == Numbered(eff.sends \o rec)
  IN  /\ sent' = sent0 \o all
      /\ stops' = stops0 \o eff.stops
      /\ open' = open0 \cup Requests(all)
      /\ nextId' = nextId + Len(all)
      /\ out' = outs0 \o eff.outs \o (IF eff.wait = "none" THEN << Prompt >> ELSE << >>)
      /\ pc' = IF eff.wait = "none" THEN "loop" ELSE eff.wait
      /\ keysBuf' = eff.keys
      /\ keysPos' = eff.pos
      /\ waitReq' = IF eff.wait = "none" THEN 0 ELSE nextId + Len(eff.sends) - 1
      /\ elapsed' = 0

\* How the loop classifies a received type.
\* Variant, wrong on purpose: MSG_CF_VALUE is missing from the discarded types.
LoopClass_value_reported(type) ==
  IF type = MSG_SPAWN_RESPONSE THEN "spawn"
  ELSE IF type = MSG_MOUNT_RESPONSE THEN "mount"
  ELSE IF type = MSG_CAPS_REPLY THEN "caps"
  ELSE IF type = MSG_CF_OK \/ type = MSG_CF_ERROR
          \/ type = MSG_CF_KEYS \/ type = MSG_CF_NOT_FOUND THEN "kv"
  ELSE IF type # MSG_SHELL_INPUT THEN "unsolicited"
  ELSE "input"

LoopClass(type) ==
  IF type = MSG_SPAWN_RESPONSE THEN "spawn"
  ELSE IF type = MSG_MOUNT_RESPONSE THEN "mount"
  ELSE IF type = MSG_CAPS_REPLY THEN "caps"
  ELSE IF type = MSG_CF_OK \/ type = MSG_CF_ERROR \/ type = MSG_CF_VALUE
          \/ type = MSG_CF_KEYS \/ type = MSG_CF_NOT_FOUND THEN "kv"
  ELSE IF type # MSG_SHELL_INPUT THEN "unsolicited"
  ELSE "input"

\* The loop's `trimmed` for a shell-input message.
InputLine(m) == trim(Head0(m.payload, Min(Len(m.payload), INPUT_BUF_SIZE)))

IsExit(trimmed) == trimmed = V_exit \/ trimmed = V_quit

\* Variant, wrong on purpose: the prompt is printed after a KV reply too.
LoopReport_always_prompts(m) ==
  CASE LoopClass(m.type) = "spawn" -> handle_spawn_response(m.payload) \o << Prompt >>
    [] LoopClass(m.type) \in { "mount", "caps", "kv" } -> << Prompt >>
    [] LoopClass(m.type) = "unsolicited" ->
         << Out("[msg] type=", m.type, Len(m.payload), PayloadPreview(m), m.src), Prompt >>

\* What an iteration that does not dispatch prints, the next prompt included.
LoopReport(m) ==
  CASE LoopClass(m.type) = "spawn" -> handle_spawn_response(m.payload) \o << Prompt >>
    [] LoopClass(m.type) \in { "mount", "caps" } -> << Prompt >>
    [] LoopClass(m.type) = "kv" -> << >>
    [] LoopClass(m.type) = "unsolicited" ->
         << Out("[msg] type=", m.type, Len(m.payload), PayloadPreview(m), m.src), Prompt >>

\* mk_recv_full returned a message that is not shell input.
LoopAbsorb ==
  /\ pc = "loop" /\ mailbox # << >>
  /\ LoopClass(Head(mailbox).type) # "input"
  /\ mailbox' = Tail(mailbox)
  /\ taken' = Head(mailbox)
  /\ out' = LoopReport(Head(mailbox))
  /\ sent' = << >> /\ stops' = << >> /\ got' = << >> /\ ran' = "none"
  /\ line' = << >>
  /\ UNCHANGED << reg, pc, keysBuf, keysPos, waitReq, elapsed, status, open, nextId,
                  typed, unsol, resolveVars >>

\* mk_recv_full returned the line "exit" or "quit".
LoopExit ==
  /\ pc = "loop" /\ mailbox # << >>
  /\ LoopClass(Head(mailbox).type) = "input"
  /\ IsExit(InputLine(Head(mailbox)))
  /\ mailbox' = Tail(mailbox)
  /\ taken' = Head(mailbox)
  /\ out' = << Say("Goodbye.") >>
  /\ sent' = << >> /\ stops' = << >> /\ got' = << >> /\ ran' = "none"
  /\ line' = InputLine(Head(mailbox))
  /\ pc' = "done"
  /\ status' = "returned 0"
  /\ UNCHANGED << reg, keysBuf, keysPos, waitReq, elapsed, open, nextId,
                  typed, unsol, resolveVars >>

\* mk_recv_full returned any other line: it is dispatched, and the handler
\* runs until it returns or blocks in a receive of its own.
LoopCommand ==
  /\ pc = "loop" /\ mailbox # << >>
  /\ LoopClass(Head(mailbox).type) = "input"
  /\ ~IsExit(InputLine(Head(mailbox)))
  /\ \E h \in HostChoices :
       LET trimmed == InputLine(Head(mailbox))
           eff == dispatch_command(reg, trimmed, h)
       IN  /\ line' = trimmed
           /\ ran' = eff.handler
           /\ Proceed(trimmed, eff, h, << >>, << >>, << >>, open)
  /\ mailbox' = Tail(mailbox)
  /\ taken' = Head(mailbox)
  /\ got' = << >>
  /\ UNCHANGED << reg, status, typed, unsol, resolveVars >>

\* Variant, wrong on purpose: the failure is reported and the loop goes on.
LoopRecvFail_continues ==
  /\ pc = "loop"
  /\ out' = << Say("error: mk_recv failed"), Prompt >>
  /\ sent' = << >> /\ stops' = << >> /\ got' = << >> /\ ran' = "none"
  /\ taken' = NoMsg
  /\ line' = << >>
  /\ UNCHANGED << reg, pc, status, mailbox, keysBuf, keysPos, waitReq, elapsed, open, nextId,
                  typed, unsol, resolveVars >>

\* mk_recv_full failed: the loop breaks and handle_message returns 0.
LoopRecvFail ==
  /\ pc = "loop"
  /\ out' = << Say("error: mk_recv failed") >>
  /\ sent' = << >> /\ stops' = << >> /\ got' = << >> /\ ran' = "none"
  /\ taken' = NoMsg
  /\ line' = << >>
  /\ pc' = "done"
  /\ status' = "returned 0"
  /\ UNCHANGED << reg, mailbox, keysBuf, keysPos, waitReq, elapsed, open, nextId,
                  typed, unsol, resolveVars >>

\* The handler blocked in `wait` continues after mk_recv_timeout returned rc.
AfterRecv(wait, rc, m, h) ==
  CASE wait = "call"   -> cmd_call_reply(rc, m)
    [] wait = "mount"  -> cmd_mount_reply(rc, m)
    [] wait = "caps"   -> cmd_caps_reply(rc, m)
    [] wait = "hlist"  -> cmd_history_list_reply(reg, rc, m, h)
    [] wait = "hget"   -> cmd_history_get_reply(reg, keysBuf, keysPos, rc, m, h)
    [] wait = "hclear" -> cmd_history_clear_reply(reg, rc, m, h)

\* A record of one receive of a handler.
Got(rc, m) == [wait |-> pc, rc |-> rc, msg |-> m, req |-> waitReq, at |-> elapsed]

\* mk_recv_timeout returned the oldest queued message.
HandlerRecv ==
  /\ pc \in Waits /\ mailbox # << >>
  /\ \E h \in HostChoices :
       Proceed(line, AfterRecv(pc, 0, Head(mailbox), h), h, out, sent, stops, open)
  /\ mailbox' = Tail(mailbox)
  /\ got' = Append(got, Got(0, Head(mailbox)))
  /\ UNCHANGED << reg, line, status, ran, taken, typed, unsol, resolveVars >>

\* The deadline passed with nothing queued: mk_recv_timeout returned -2.
HandlerTimeout ==
  /\ pc \in Waits /\ mailbox = << >>
  /\ \E h \in HostChoices :
       Proceed(line, AfterRecv(pc, -2, NoMsg, h), h, out, sent, stops,
               { IF r.id = waitReq THEN [r EXCEPT !.timedOut = TRUE] ELSE r : r \in open })
  /\ got' = Append(got, Got(-2, NoMsg))
  /\ UNCHANGED << reg, mailbox, line, status, ran, taken, typed, unsol, resolveVars >>

\* mk_recv_timeout failed with another negative status.
HandlerRecvFail ==
  /\ pc \in Waits
  /\ \E h \in HostChoices :
       Proceed(line, AfterRecv(pc, -1, NoMsg, h), h, out, sent, stops, open)
  /\ got' = Append(got, Got(-1, NoMsg))
  /\ UNCHANGED << reg, mailbox, line, status, ran, taken, typed, unsol, resolveVars >>

\* Time passes in a deadline-bound receive, up to one millisecond before
\* the deadline.
Tick ==
  /\ pc \in Waits /\ elapsed = 0
  /\ elapsed' = Deadline(pc) - 1
  /\ UNCHANGED << reg, pc, mailbox, line, keysBuf, keysPos, waitReq, status, out, sent,
                  stops, ran, taken, got, open, nextId, typed, unsol, resolveVars >>

(***************************************************************************)
(* The environment: the operator and the peers                             *)
(***************************************************************************)
MaxLines == 2
MaxUnsolicited == 1
MaxMailbox == 2

L_call_echo     == B(<< "c","a","l","l"," ","e","c","h","o"," ","1" >>)
L_caps_echo     == B(<< "c","a","p","s"," ","e","c","h","o" >>)
L_mount_h       == B(<< "m","o","u","n","t"," ","h" >>)
L_history       == B(<< "h","i","s","t","o","r","y" >>)
L_history_clear == B(<< "h","i","s","t","o","r","y"," ","c","l","e","a","r" >>)
L_load_file     == B(<< "l","o","a","d"," ","/","e",".","w","a","s","m" >>)
L_send_echo     == B(<< "s","e","n","d"," ","e","c","h","o"," ","7"," ","h","e","l","l","o" >>)
L_exit          == B(<< "e","x","i","t" >>)

ReplLines ==
  { L_call_echo, L_caps_echo, L_mount_h, L_history, L_history_clear, L_load_file, L_exit }

EnvUnchanged ==
  UNCHANGED << reg, pc, line, keysBuf, keysPos, waitReq, elapsed, status, out, sent,
               stops, ran, taken, got, nextId, resolveVars >>

\* The operator types a line.
Operator ==
  /\ pc # "done" /\ typed < MaxLines /\ Len(mailbox) < MaxMailbox
  /\ \E l \in ReplLines : mailbox' = Append(mailbox, ShellInput(l))
  /\ typed' = typed + 1
  /\ UNCHANGED << open, unsol >>
  /\ EnvUnchanged

\* A peer answers a request it was sent.
PeerReply ==
  /\ pc # "done" /\ Len(mailbox) < MaxMailbox
  /\ \E r \in open : \E m \in RepliesTo(r) :
       /\ mailbox' = Append(mailbox, m)
       /\ open' = open \ { r }
  /\ UNCHANGED << typed, unsol >>
  /\ EnvUnchanged

\* A peer sends a message nobody asked for.
Stranger ==
  /\ pc # "done" /\ unsol < MaxUnsolicited /\ Len(mailbox) < MaxMailbox
  /\ \E m \in Unsolicited : mailbox' = Append(mailbox, m)
  /\ unsol' = unsol + 1
  /\ UNCHANGED << open, typed >>
  /\ EnvUnchanged

\* The REPL variables after MSG_INIT: banner and prompt printed, blocked in
\* the first mk_recv_full.
ReplStart ==
  /\ pc = "loop" /\ mailbox = << >> /\ line = << >>
  /\ keysBuf = << >> /\ keysPos = 0 /\ waitReq = 0 /\ elapsed = 0
  /\ status = "running"
  /\ out = << Say("microkernel WASM shell v0.2"), Prompt >>
  /\ sent = << >> /\ stops = << >> /\ ran = "none" /\ taken = NoMsg /\ got = << >>
  /\ open = {} /\ nextId = 1 /\ typed = 0 /\ unsol = 0

ReplIdle == ReplStart

ResolveIdle == tok = << >> /\ res = None /\ rpc = "idle"

Init == reg \in Registries /\ ReplStart /\ ResolveIdle

Console ==
  \/ LoopAbsorb \/ LoopExit \/ LoopCommand \/ LoopRecvFail
  \/ HandlerRecv \/ HandlerTimeout \/ HandlerRecvFail \/ Tick

Next == Console \/ Operator \/ PeerReply \/ Stranger

Spec == Init /\ [][Next]_vars

(***************************************************************************)
(* One typed line, dispatched                                              *)
(***************************************************************************)
L_empty         == << >>
L_blank         == B(<< " "," "," " >>)
L_ws            == << 9 >> \o B(<< " " >>) \o << 13 >> \o << 10 >>
L_help          == B(<< "h","e","l","p" >>)
L_qmark         == B(<< "?" >>)
L_list          == B(<< "l","i","s","t" >>)
L_ls            == B(<< "l","s" >>)
L_ls_prefix     == B(<< "l","s"," ","/","n","o","d","e" >>)
L_whoami        == B(<< "w","h","o","a","m","i" >>)
L_self          == B(<< "s","e","l","f" >>)
L_load          == B(<< "l","o","a","d" >>)
L_load_url      == B(<< "l","o","a","d"," ","h","t","t","p",":","/","/","h","/","m",".","w","a","s","m","?","v","=","2" >>)
L_send          == B(<< "s","e","n","d" >>)
L_send_notype   == B(<< "s","e","n","d"," ","e","c","h","o" >>)
L_send_badtype  == B(<< "s","e","n","d"," ","e","c","h","o"," ","x" >>)
L_send_ghost    == B(<< "s","e","n","d"," ","g","h","o","s","t"," ","1"," ","x" >>)
L_send_spaced   == B(<< " "," ","s","e","n","d"," "," ","e","c","h","o"," "," ","7"," "," ","h","e","l","l","o"," "," " >>)
L_send_num      == B(<< "s","e","n","d"," ","5"," ","1" >>)
L_send_alias    == B(<< "s","e","n","d"," ","4","2"," ","1"," ","a"," ","b" >>)
L_send_tab      == B(<< "s", "e", "n", "d" >>) \o << 9 >> \o B(<< "e", "c", "h", "o" >>) \o << 9 >> \o B(<< "7" >>) \o << 9 >> \o B(<< "h","e","l","l","o" >>)
L_call          == B(<< "c","a","l","l" >>)
L_call_ghost    == B(<< "c","a","l","l"," ","g","h","o","s","t"," ","1" >>)
L_call_num      == B(<< "c","a","l","l"," ","5"," ","1"," ","h","i" >>)
L_stop          == B(<< "s","t","o","p" >>)
L_stop_echo     == B(<< "s","t","o","p"," ","e","c","h","o" >>)
L_stop_ghost    == B(<< "s","t","o","p"," ","g","h","o","s","t" >>)
L_stop_zero     == B(<< "s","t","o","p"," ","0" >>)
L_register      == B(<< "r","e","g","i","s","t","e","r" >>)
L_register_me   == B(<< "r","e","g","i","s","t","e","r"," ","m","e" >>)
L_lookup        == B(<< "l","o","o","k","u","p" >>)
L_lookup_echo   == B(<< "l","o","o","k","u","p"," ","e","c","h","o" >>)
L_mount         == B(<< "m","o","u","n","t" >>)
L_mount_port    == B(<< "m","o","u","n","t"," ","h",":","8","0" >>)
L_mount_badport == B(<< "m","o","u","n","t"," ","h",":","x" >>)
L_caps          == B(<< "c","a","p","s" >>)
L_caps_ghost    == B(<< "c","a","p","s"," ","g","h","o","s","t" >>)
L_history_now   == B(<< "h","i","s","t","o","r","y"," ","n","o","w" >>)
L_historyx      == B(<< "h","i","s","t","o","r","y","x" >>)
L_quit          == B(<< "q","u","i","t" >>)
L_exit_now      == B(<< "e","x","i","t"," ","n","o","w" >>)
L_exit_padded   == B(<< " "," ","e","x","i","t"," "," " >>)
L_upper         == B(<< "H","E","L","P" >>)
L_helpx         == B(<< "h","e","l","p","x" >>)
L_bogus         == B(<< "b","o","g","u","s"," ","a","r","g" >>)

L_mount_bigport == B(<< "m","o","u","n","t"," ","h",":","7","0","0","0","0" >>)

\* A line that fills INPUT_BUF.
L_long == [i \in 1..INPUT_BUF_SIZE |-> 97]

\* mount with a host name one byte longer than the request has room for.
\* cmd_mount copies the host name from INPUT_BUF to INPUT_BUF one byte in,
\* source and destination overlapping; with every byte of the name alike the
\* bytes copied are the same in whichever order the copy proceeds.
L_mount_longhost == B(<< "m","o","u","n","t"," " >>) \o [i \in 1..(M_host_cap + 1) |-> 104]

DispatchLines ==
  ReplLines \cup { L_send_echo, L_long, L_mount_longhost, L_mount_bigport,
    L_empty, L_blank, L_ws, L_help, L_qmark, L_list, L_ls, L_ls_prefix, L_whoami,
    L_self, L_load, L_load_url, L_send, L_send_notype, L_send_badtype, L_send_ghost,
    L_send_spaced, L_send_num, L_send_alias, L_send_tab, L_call, L_call_ghost,
    L_call_num, L_stop, L_stop_echo, L_stop_ghost, L_stop_zero, L_register,
    L_register_me, L_lookup, L_lookup_echo, L_mount, L_mount_port, L_mount_badport,
    L_caps, L_caps_ghost, L_history_now, L_historyx, L_quit, L_exit_now,
    L_exit_padded, L_upper, L_helpx, L_bogus }

\* The operator has typed one line and the loop has not received it yet.
DispatchInit ==
  /\ reg \in Registries
  /\ \E l \in DispatchLines : mailbox = << ShellInput(l) >>
  /\ pc = "loop" /\ line = << >>
  /\ keysBuf = << >> /\ keysPos = 0 /\ waitReq = 0 /\ elapsed = 0
  /\ status = "running"
  /\ out = << Say("microkernel WASM shell v0.2"), Prompt >>
  /\ sent = << >> /\ stops = << >> /\ ran = "none" /\ taken = NoMsg /\ got = << >>
  /\ open = {} /\ nextId = 1 /\ typed = 1 /\ unsol = 0
  /\ ResolveIdle

DispatchNext == Console \/ PeerReply

SpecDispatch == DispatchInit /\ [][DispatchNext]_vars

(***************************************************************************)
(* call among messages of every kind                                       *)
(***************************************************************************)
\* What may be delivered to the console while call waits: a typed line, a
\* spawn response, replies of other protocols, a message nobody asked for.
AnyMessages ==
  Unsolicited
    \cup { ShellInput(L_mount_h), ShellInput(L_exit),
           Msg(MSG_SPAWN_RESPONSE, ID_console, << 11, 0, 0, 0, 0, 0, 0, 0 >> \o N_echo, 0, FALSE),
           Msg(MSG_CF_OK, ID_kv, << >>, 0, FALSE),
           Msg(MSG_CAPS_REPLY, ID_caps, R_caps, 0, FALSE),
           Msg(MSG_MOUNT_RESPONSE, ID_console, << 0 >> \o R_ident, 0, FALSE) }

\* The operator has typed a call line and the loop has not received it yet.
CallInit ==
  /\ reg \in Registries
  /\ \E l \in { L_call_echo, L_call_num } : mailbox = << ShellInput(l) >>
  /\ pc = "loop" /\ line = << >>
  /\ keysBuf = << >> /\ keysPos = 0 /\ waitReq = 0 /\ elapsed = 0
  /\ status = "running"
  /\ out = << Say("microkernel WASM shell v0.2"), Prompt >>
  /\ sent = << >> /\ stops = << >> /\ ran = "none" /\ taken = NoMsg /\ got = << >>
  /\ open = {} /\ nextId = 1 /\ typed = 1 /\ unsol = 0
  /\ ResolveIdle

\* Somebody sends the console a message while call waits.
Bystander ==
  /\ pc = "call" /\ unsol < MaxUnsolicited /\ Len(mailbox) < MaxMailbox
  /\ \E m \in AnyMessages : mailbox' = Append(mailbox, m)
  /\ unsol' = unsol + 1
  /\ UNCHANGED << open, typed >>
  /\ EnvUnchanged

CallNext == Console \/ PeerReply \/ Bystander

SpecCall == CallInit /\ [][CallNext]_vars

(***************************************************************************)
(* The resolver applied to bounded tokens                                  *)
(***************************************************************************)
MaxTokLen == 3

TokAlphabet == { 48, 50, 52, 57, 97 }

RECURSIVE SeqsUpTo(_, _)
SeqsUpTo(S, n) ==
  IF n = 0 THEN { << >> }
  ELSE LET shorter == SeqsUpTo(S, n - 1)
       IN  shorter \cup { Append(s, x) : s \in shorter, x \in S }

\* 2^64 and its neighbours, written out.
T_2p64     == B(<< "1","8","4","4","6","7","4","4","0","7","3","7","0","9","5","5","1","6","1","6" >>)
T_2p64p9   == B(<< "1","8","4","4","6","7","4","4","0","7","3","7","0","9","5","5","1","6","2","5" >>)
T_2p64m1   == B(<< "1","8","4","4","6","7","4","4","0","7","3","7","0","9","5","5","1","6","1","5" >>)
T_2p63     == B(<< "9","2","2","3","3","7","2","0","3","6","8","5","4","7","7","5","8","0","8" >>)
T_2p63m1   == B(<< "9","2","2","3","3","7","2","0","3","6","8","5","4","7","7","5","8","0","7" >>)
T_ghost    == B(<< "g", "h", "o", "s", "t" >>)

Tokens ==
  SeqsUpTo(TokAlphabet, MaxTokLen)
    \cup { T_2p64, T_2p64p9, T_2p64m1, T_2p63, T_2p63m1, T_ghost, N_echo, N_console }

ResolveInit ==
  /\ reg \in Registries
  /\ tok \in Tokens
  /\ res = None
  /\ rpc = "start"
  /\ ReplIdle

Resolve ==
  /\ rpc = "start"
  /\ res' = resolve_target(reg, tok)
  /\ rpc' = "done"
  /\ UNCHANGED << reg, tok, replVars >>

ResolveNext == Resolve

SpecResolve == ResolveInit /\ [][ResolveNext]_vars

\* Decimal numerals (ASCII digit strings) compared without fixed width.
AllDigits(t) == t # << >> /\ \A i \in 1..Len(t) : IsDigit(t[i])

\* The numeral without its leading zeros ("0" for zero).
Canon(t) ==
  IF \A i \in 1..Len(t) : t[i] = 48 THEN << 48 >>
  ELSE LET f == CHOOSE i \in 1..Len(t) : t[i] # 48 /\ \A j \in 1..(i - 1) : t[j] = 48
       IN  SubSeq(t, f, Len(t))

RECURSIVE DecAddLoop(_, _, _, _)
DecAddLoop(a, b, i, c) ==
  LET da == IF i < Len(a) THEN a[Len(a) - i] - 48 ELSE 0
      db == IF i < Len(b) THEN b[Len(b) - i] - 48 ELSE 0
      sm == da + db + c
  IN  IF i >= Len(a) /\ i >= Len(b)
      THEN (IF c = 0 THEN << >> ELSE << 48 + c >>)
      ELSE Append(DecAddLoop(a, b, i + 1, sm \div 10), 48 + (sm % 10))

\* The numeral of a + b.
DecAdd(a, b) == DecAddLoop(a, b, 0, 0)

\* The numeral of k * 2^64.
RECURSIVE Times2p64(_)
Times2p64(k) == IF k = 0 THEN << 48 >> ELSE DecAdd(Times2p64(k - 1), T_2p64)

\* C2 (as claimed): a registered name resolves to its identity; otherwise every
\* non-empty all-digit token resolves to the identity whose value is the token's
\* decimal value; otherwise resolution fails.
C2_ResolveExactDecimal ==
  rpc = "done" =>
    LET id == mk_lookup(reg, tok)
    IN  /\ id # ACTOR_ID_INVALID => res = Some(id)
        /\ (id = ACTOR_ID_INVALID /\ AllDigits(tok)) =>
              /\ res.some
              /\ res.v[4] < 32768
              /\ print_u64(res.v) = Canon(tok)
        /\ (id = ACTOR_ID_INVALID /\ ~AllDigits(tok)) => ~res.some

\* C2 (amended): as above, but the numeral is taken modulo 2^64: the identity's
\* 64-bit pattern p satisfies p + k * 2^64 = the token's decimal value for some k,
\* and k = 0 with a non-negative identity whenever the token is below 2^63;
\* resolution fails exactly when the lookup fails and the token is no numeral.
C2_ResolveModulo2p64 ==
  rpc = "done" =>
    LET id == mk_lookup(reg, tok)
    IN  /\ id # ACTOR_ID_INVALID => res = Some(id)
        /\ (id = ACTOR_ID_INVALID /\ AllDigits(tok)) =>
              /\ res.some
              /\ \E k \in 0..5 : DecAdd(print_u64(res.v), Times2p64(k)) = Canon(tok)
              /\ Len(Canon(tok)) < Len(T_2p63) =>
                    res.v[4] < 32768 /\ print_u64(res.v) = Canon(tok)
        /\ ~res.some <=> (id = ACTOR_ID_INVALID /\ ~AllDigits(tok))

\* C2 witness: a numeral above 2^64 has resolved, to the wrapped identity 9.
C2_Witness ==
  rpc = "done" /\ tok = T_2p64p9 /\ res = Some(U64(9)) /\ mk_lookup(reg, tok) = ACTOR_ID_INVALID

(***************************************************************************)
(* Properties of one dispatched line (SpecDispatch)                        *)
(***************************************************************************)
Blank == { 32, 9 }
White == { 32, 9, 10, 13 }

\* The first position from i on whose byte is not in S (Len(s) + 1 if none).
SkipWhile(s, i, S) ==
  CHOOSE j \in i..(Len(s) + 1) :
    (j = Len(s) + 1 \/ s[j] \notin S) /\ \A k \in i..(j - 1) : s[k] \in S

\* The first position from i on whose byte is in S (Len(s) + 1 if none).
SkipUntil(s, i, S) ==
  CHOOSE j \in i..(Len(s) + 1) :
    (j = Len(s) + 1 \/ s[j] \in S) /\ \A k \in i..(j - 1) : s[k] \notin S

\* Where the k-th field of a typed line starts: fields are separated by a
\* space or a tab, and the whitespace before a field does not belong to it.
RECURSIVE FieldStart(_, _)
FieldStart(s, k) ==
  IF k = 1 THEN 1 ELSE SkipWhile(s, SkipUntil(s, FieldStart(s, k - 1), Blank), White)

Field(s, k) == SubSeq(s, FieldStart(s, k), SkipUntil(s, FieldStart(s, k), Blank) - 1)

RestFrom(s, k) == SubSeq(s, FieldStart(s, k), Len(s))

\* The decimal numeral of a natural number.
RECURSIVE Numeral(_)
Numeral(n) == IF n < 10 THEN << 48 + n >> ELSE Append(Numeral(n \div 10), 48 + (n % 10))

\* The sends a handler issued since the loop's last receive.
HandlerSends(by) == SelectSeq(sent, LAMBDA e : e.s.by = by)

HandlersOf(verb) ==
  CASE verb \in { V_help, V_qmark } -> { "cmd_help" }
    [] verb = V_list -> { "cmd_list" }
    [] verb = V_ls -> { "cmd_list", "cmd_ns_list" }
    [] verb = V_whoami -> { "cmd_whoami" }
    [] verb = V_load -> { "cmd_load" }
    [] verb = V_send -> { "cmd_send" }
    [] verb = V_call -> { "cmd_call" }
    [] verb = V_stop -> { "cmd_stop" }
    [] verb = V_register -> { "cmd_register" }
    [] verb = V_lookup -> { "cmd_lookup" }
    [] verb = V_self -> { "cmd_self_id" }
    [] verb = V_mount -> { "cmd_mount" }
    [] verb = V_caps -> { "cmd_caps" }
    [] verb = V_history -> { "cmd_history", "cmd_history_clear" }
    [] OTHER -> {}

\* The loop's last receive returned a line and dispatch_command was called on it.
Dispatched == taken.type = MSG_SHELL_INPUT /\ ~IsExit(line)

\* C10 (as claimed): every dispatched line either is empty and prints nothing,
\* or runs one handler of the verb table, chosen by its first token, or prints
\* "Unknown command: <verb>"; and the loop goes on.
C10_DispatchTotal ==
  Dispatched =>
    /\ status = "running" /\ pc # "done"
    /\ \/ line = << >> /\ ran = "none" /\ out = << Prompt >> /\ sent = << >>
       \/ ran # "none" /\ ran \in HandlersOf(Field(line, 1))
       \/ /\ line # << >> /\ ran = "none" /\ HandlersOf(Field(line, 1)) = {}
          /\ out = << SayBytes("Unknown command: ", Field(line, 1)), Prompt >>

\* C10 witness: "exit now" has been dispatched: no handler ran, nothing was
\* printed but the next prompt, and the loop goes on.
C10_Witness ==
  /\ Dispatched /\ line = L_exit_now /\ Field(line, 1) = V_exit
  /\ ran = "none" /\ out = << Prompt >> /\ status = "running" /\ pc = "loop"

(***************************************************************************)
(* Properties of the handlers' deadline-bound receives                     *)
(***************************************************************************)
Printed(tag) == \E i \in DOMAIN out : out[i].tag = tag

\* The waits that follow a request directly.
RequestWaits == { "call", "caps", "mount", "hlist", "hclear" }

TimeoutText(wait) == IF wait \in { "call", "caps" } THEN "Timeout (5s)" ELSE "Timeout"

FailText(wait) == IF wait = "mount" THEN "error: mount failed" ELSE "error: recv failed"

\* C3 (as claimed): in the waits of call, caps, mount and the history LIST
\* exchanges, a deadline that passes with no message is reported as a timeout,
\* in words other than those of a failed receive; a message received before the
\* deadline, even one millisecond before, is reported neither as a timeout nor
\* as a failed receive.
C3_TimeoutOrReply ==
  \A i \in DOMAIN got :
    LET g == got[i]
    IN  g.wait \in RequestWaits =>
          /\ TimeoutText(g.wait) # FailText(g.wait)
          /\ g.rc = -2 => Printed(TimeoutText(g.wait)) /\ ~Printed(FailText(g.wait))
          /\ g.rc = -1 => Printed(FailText(g.wait)) /\ ~Printed(TimeoutText(g.wait))
          /\ (g.rc = 0 /\ g.at < Deadline(g.wait)) =>
                ~Printed(TimeoutText(g.wait)) /\ ~Printed(FailText(g.wait))

\* C3 (amended): as above, except that mount reports a received message with an
\* empty payload in the words of a failed receive ("error: mount failed"), and
\* that is the only received message so reported.
C3_TimeoutOrReplyButEmptyMount ==
  \A i \in DOMAIN got :
    LET g == got[i]
    IN  g.wait \in RequestWaits =>
          /\ TimeoutText(g.wait) # FailText(g.wait)
          /\ g.rc = -2 => Printed(TimeoutText(g.wait)) /\ ~Printed(FailText(g.wait))
          /\ g.rc = -1 => Printed(FailText(g.wait)) /\ ~Printed(TimeoutText(g.wait))
          /\ (g.rc = 0 /\ g.at < Deadline(g.wait)) =>
                /\ ~Printed(TimeoutText(g.wait))
                /\ Printed(FailText(g.wait)) <=> (g.wait = "mount" /\ Len(g.msg.payload) = 0)

\* C3 witness: call has received a message one millisecond before its deadline
\* and reported it as the reply.
C3_Witness ==
  /\ Len(got) = 1 /\ got[1].wait = "call" /\ got[1].rc = 0 /\ got[1].at = T_call - 1
  /\ out = << Out("[reply] type=", 1, Len(R_echo), R_echo, ID_echo), Prompt >>

\* A send that asks for a reply the handler then waits for.
IsRequest(e) ==
  /\ e.s.by \in { "cmd_call", "cmd_caps", "cmd_mount", "cmd_history", "cmd_history_clear" }
  /\ e.s.type # MSG_CF_KV_DELETE

\* C4 (as claimed): when the send of a request fails, the command reports the
\* failure and never blocks in the receive for that request.
C4_NoReceiveAfterFailedSend ==
  \A i \in DOMAIN sent :
    (IsRequest(sent[i]) /\ ~sent[i].s.ok) =>
       /\ ~(pc \in Waits /\ waitReq = sent[i].id)
       /\ \A j \in DOMAIN got : got[j].req # sent[i].id
       /\ sent[i].s.type # MSG_CF_KV_GET => Printed("error: send failed")

\* C4 witness: the mount request was not sent, and cmd_mount is blocked in the
\* receive for its answer.
C4_Witness ==
  /\ pc = "mount" /\ Len(sent) = 1 /\ waitReq = sent[1].id
  /\ sent[1].s.by = "cmd_mount" /\ sent[1].s.type = MSG_MOUNT_REQUEST /\ ~sent[1].s.ok
  /\ out = << Say("Connecting...") >>

(***************************************************************************)
(* Properties of the console among its peers (Spec)                        *)
(***************************************************************************)
\* C5: the first message call receives before its deadline is reported as
\* "[reply]" with its type, source and size whatever they are, a typed line or a
\* spawn response included; the message is gone from the mailbox and the loop
\* neither dispatches nor reports it.
C5_CallTakesAnyMessage ==
  \A i \in DOMAIN got :
    LET g == got[i]
    IN  (g.wait = "call" /\ g.rc = 0) =>
          /\ i = 1 /\ Len(got) = 1 /\ pc = "loop"
          /\ out = << Out("[reply] type=", g.msg.type, Len(g.msg.payload),
                          PayloadPreview(g.msg), g.msg.src), Prompt >>
          /\ ran = "cmd_call" /\ Field(line, 1) = V_call
          /\ taken = ShellInput(taken.payload) /\ InputLine(taken) = line
          /\ \A k \in DOMAIN sent : sent[k].s.by \in { "cmd_call", "history_record" }

\* C5 witness: call has taken a line the operator typed during the wait as
\* its reply.
C5_Witness ==
  /\ Len(got) = 1 /\ got[1].wait = "call" /\ got[1].rc = 0
  /\ got[1].msg = ShellInput(L_mount_h)
  /\ out = << Out("[reply] type=", MSG_SHELL_INPUT, Len(L_mount_h), L_mount_h, ID_operator),
              Prompt >>
  /\ mailbox = << >> /\ line = L_call_echo

\* C6 (as claimed): a reply queued after the wait for it has timed out is never
\* returned to a handler's receive.
C6_LateReplyNeverToHandler ==
  \A i \in DOMAIN got : got[i].rc = 0 => ~got[i].msg.late

\* C6 witness: a later call has received, as its reply, the answer to an
\* earlier request whose wait had timed out.
C6_Witness ==
  /\ Len(got) = 1 /\ got[1].wait = "call" /\ got[1].rc = 0
  /\ got[1].msg.late /\ got[1].msg.re # 0 /\ got[1].msg.re < got[1].req
  /\ Printed("[reply] type=")

\* The reports of handle_spawn_response.
SpawnReports == { "Spawned actor ", "error: spawn failed", "error: spawn failed (bad response)" }

\* C8 (as claimed): every spawn response the console has received, in the loop
\* or in a handler, has been reported as a spawn outcome.
C8_SpawnResponseReported ==
  /\ taken.type = MSG_SPAWN_RESPONSE => \E t \in SpawnReports : Printed(t)
  /\ \A i \in DOMAIN got :
       (got[i].rc = 0 /\ got[i].msg.type = MSG_SPAWN_RESPONSE) =>
          \E t \in SpawnReports : Printed(t)

\* C8 witness: call has received a spawn response and printed it as its reply;
\* no spawn outcome was reported.
C8_Witness ==
  /\ Len(got) = 1 /\ got[1].wait = "call" /\ got[1].rc = 0
  /\ got[1].msg.type = MSG_SPAWN_RESPONSE
  /\ Printed("[reply] type=") /\ \A t \in SpawnReports : ~Printed(t)

\* C9 (as claimed): caps prints a capability payload only for a received
\* capability reply, and mount prints "Mounted /node/<identity>" only for a
\* received mount response whose status byte is 0.
C9_SuccessOnlyAfterValidation ==
  \A i \in DOMAIN got :
    LET g == got[i]
    IN  /\ (g.wait = "caps" /\ Printed("caps")) => g.rc = 0 /\ g.msg.type = MSG_CAPS_REPLY
        /\ (g.wait = "mount" /\ Printed("Mounted /node/")) =>
              /\ g.rc = 0
              /\ g.msg.type = MSG_MOUNT_RESPONSE
              /\ g.msg.payload # << >> /\ g.msg.payload[1] = 0

\* C9 witness: mount has received a message of type 7 with payload 00 78 and
\* printed "Mounted /node/x".
C9_Witness ==
  /\ Len(got) = 1 /\ got[1].wait = "mount" /\ got[1].rc = 0 /\ got[1].msg.type = 7
  /\ out = << Say("Connecting..."), SayBytes("Mounted /node/", << 120 >>), Prompt >>

\* A store acknowledgment of a history PUT or DELETE (the only requests a peer
\* answers with MSG_CF_OK).
IsStoreAck(m) == m.type = MSG_CF_OK /\ m.re # 0

\* C7 (as claimed): no acknowledgment of a history PUT or DELETE is returned
\* to a handler's receive; the loop takes and discards every one of them.
C7_AckNeverToHandler ==
  \A i \in DOMAIN got : got[i].rc = 0 => ~IsStoreAck(got[i].msg)

\* C7 witness: call has received the acknowledgment of the PUT that recorded
\* the previous line, and printed it as its reply.
C7_Witness ==
  /\ Len(got) = 1 /\ got[1].wait = "call" /\ got[1].rc = 0
  /\ IsStoreAck(got[1].msg) /\ got[1].msg.src = ID_kv
  /\ out = << Out("[reply] type=", MSG_CF_OK, 0, << >>, ID_kv), Prompt >>

(***************************************************************************)
(* Properties of the end of the session and of the recording of lines      *)
(***************************************************************************)
\* The loop has ended on the line it received last: farewell printed, status
\* 0 returned, the line neither dispatched nor recorded, no receive after it.
EndedOnLine ==
  /\ status = "returned 0" /\ pc = "done"
  /\ out = << Say("Goodbye.") >>
  /\ ran = "none" /\ sent = << >> /\ got = << >>

\* C11 (as claimed): the session ends on a typed line exactly when the line's
\* first token is exit or quit; every other typed line leaves the loop running.
C11_EndsIffVerbExit ==
  taken.type = MSG_SHELL_INPUT =>
    /\ Field(line, 1) \in { V_exit, V_quit } <=> EndedOnLine
    /\ Field(line, 1) \notin { V_exit, V_quit } => status = "running" /\ pc # "done"

\* C11 witness: the line "exit now", whose first token is exit, has been
\* dispatched and recorded, and the loop is receiving again.
C11_Witness ==
  /\ taken = ShellInput(L_exit_now) /\ line = L_exit_now
  /\ status = "running" /\ pc = "loop"
  /\ Len(sent) = 1 /\ sent[1].s.by = "history_record" /\ sent[1].s.type = MSG_CF_KV_PUT

\* C12 (as claimed): once a dispatched line's handler has returned, the loop
\* has recorded the line, by exactly one PUT to the KV actor when that actor
\* resolves, if and only if the line is non-empty and its first token is not
\* history.
C12_RecordedIffNotHistoryVerb ==
  (Dispatched /\ pc = "loop") =>
    LET puts == HandlerSends("history_record")
    IN  IF line # << >> /\ Field(line, 1) # V_history
           /\ find_kv_proxy(reg) # ACTOR_ID_INVALID
        THEN /\ Len(puts) = 1
             /\ puts[1].s.type = MSG_CF_KV_PUT /\ puts[1].s.dest = find_kv_proxy(reg)
        ELSE puts = << >>

\* C12 witness: the line "historyx", whose first token is not history, has
\* been dispatched as an unknown command with the KV actor registered, and
\* nothing was sent.
C12_Witness ==
  /\ Dispatched /\ pc = "loop" /\ line = L_historyx
  /\ find_kv_proxy(reg) = ID_kv
  /\ out = << SayBytes("Unknown command: ", L_historyx), Prompt >>
  /\ sent = << >>

(***************************************************************************)
(* history_record applied to bounded lines and timestamps                  *)
(***************************************************************************)
L_stop_5 == B(<< "s","t","o","p"," ","5" >>)
L_two_rows == B(<< "a" >>) \o << 10 >> \o B(<< "b"," ","c" >>)

RecordLines == { L_stop_5, L_send_echo, L_two_rows, L_exit_now, CmdCopy(L_long) }

\* Values of mk_time_ms, as limbs.
Stamps ==
  { U64(0), U64(1), U64(9), U64(10), U64(15), U64(16), U64(255), U64(4096),
    << 65535, 0, 0, 0 >>, << 0, 1, 0, 0 >>, << 0, 0, 1, 0 >>, << 0, 0, 0, 1 >>,
    << 65535, 65535, 65535, 32767 >>, Clock, << 26625, 53221, 395, 0 >> }

\* tok holds the line and two timestamps; res, the sends of history_record
\* at each of them.
RecordInit ==
  /\ reg \in Registries
  /\ tok \in [line : RecordLines, t1 : Stamps, t2 : Stamps]
  /\ res = [p1 |-> << >>, p2 |-> << >>]
  /\ rpc = "start"
  /\ ReplIdle

Record ==
  /\ rpc = "start"
  /\ res' = [p1 |-> history_record(reg, tok.line, [HostDefault EXCEPT !.ts = tok.t1], 1),
             p2 |-> history_record(reg, tok.line, [HostDefault EXCEPT !.ts = tok.t2], 1)]
  /\ rpc' = "done"
  /\ UNCHANGED << reg, tok, replVars >>

RecordNext == Record

SpecRecord == RecordInit /\ [][RecordNext]_vars

\* a < b for 64-bit values given as limbs.
Less64(a, b) ==
  \E i \in 1..4 : a[i] < b[i] /\ \A j \in (i + 1)..4 : a[j] = b[j]

\* x before y in the lexicographic order of byte strings.
LexLess(x, y) ==
  \E i \in 1..(Len(y)) :
    /\ \A j \in 1..(i - 1) : j <= Len(x) /\ x[j] = y[j]
    /\ (i > Len(x) \/ x[i] < y[i])

\* The value of a lowercase hex digit (16 for any other byte).
HexValue(c) ==
  IF c >= 48 /\ c <= 57 THEN c - 48 ELSE IF c >= 97 /\ c <= 102 THEN c - 87 ELSE 16

\* The limbs written by 16 hex digits, most significant digit first.
FromHex16(d) ==
  [i \in 1..4 |->
     LET o == 4 * (4 - i)
     IN  4096 * HexValue(d[o + 1]) + 256 * HexValue(d[o + 2])
           + 16 * HexValue(d[o + 3]) + HexValue(d[o + 4])]

\* payload is what the claim says of a PUT for line l at timestamp t.
IsRecordOf(payload, l, t) ==
  /\ Len(payload) = 12 + 16 + 1 + 6 + Len(l)
  /\ SubSeq(payload, 1, 12) = B(<< "k","e","y","=","h","i","s","t","o","r","y","/" >>)
  /\ \A i \in 13..28 : HexValue(payload[i]) < 16
  /\ FromHex16(SubSeq(payload, 13, 28)) = t
  /\ payload[29] = 10
  /\ SubSeq(payload, 30, 35) = B(<< "v","a","l","u","e","=" >>)
  /\ SubSeq(payload, 36, Len(payload)) = l

\* C13: history_record(line) at timestamp t sends, when the KV actor resolves,
\* one PUT to it whose payload is "key=history/", the 16 lowercase hex digits of
\* t (zero-padded, most significant first), a newline and "value=" followed by
\* the bytes of line unchanged; and of two timestamps 0 <= t1 < t2 the key of
\* t1 is lexicographically smaller than the key of t2.
C13_RecordPayload ==
  rpc = "done" =>
    /\ \A c \in { << tok.t1, res.p1 >>, << tok.t2, res.p2 >> } :
         IF find_kv_proxy(reg) = ACTOR_ID_INVALID THEN c[2] = << >>
         ELSE /\ Len(c[2]) = 1
              /\ c[2][1].type = MSG_CF_KV_PUT /\ c[2][1].dest = find_kv_proxy(reg)
              /\ c[2][1].fill = 0
              /\ IsRecordOf(c[2][1].payload, tok.line, c[1])
    /\ (find_kv_proxy(reg) # ACTOR_ID_INVALID /\ Less64(tok.t1, tok.t2)
          /\ tok.t1[4] < 32768 /\ tok.t2[4] < 32768) =>
         LexLess(SubSeq(res.p1[1].payload, 5, 28), SubSeq(res.p2[1].payload, 5, 28))

\* C13 witness: "stop 5" recorded at 0x00ff and at 0x1000; the second key's hex
\* digits differ from the first in a more significant place.
C13_Witness ==
  /\ rpc = "done" /\ tok.line = L_stop_5 /\ tok.t1 = U64(255) /\ tok.t2 = U64(4096)
  /\ Len(res.p1) = 1 /\ Len(res.p2) = 1
  /\ SubSeq(res.p1[1].payload, 13, 28)
       = B(<< "0","0","0","0","0","0","0","0","0","0","0","0","0","0","f","f" >>)
  /\ SubSeq(res.p2[1].payload, 30, 41) = B(<< "v","a","l","u","e","=","s","t","o","p"," ","5" >>)

(***************************************************************************)
(* history and history clear against a store                               *)
(***************************************************************************)
\* Key lists a store can answer a LIST with (rows separated by newlines).
K_one      == B(<< "h", "/", "a" >>)
K_trailing == B(<< "h", "/", "a" >>) \o << 10 >>
K_three    == B(<< "h", "/", "a" >>) \o << 10 >> \o B(<< "h", "/", "b" >>) \o << 10, 10 >>
                \o B(<< "h", "/", "c" >>)
K_blank    == << 10, 10 >>

KeyLists == { K_one, K_two, K_trailing, K_three, K_blank }

\* The keys history_record writes are 24 bytes long; 42 of them, one per row,
\* are more than INPUT_BUF holds.  Row i ends in the two digits of i.
K_many ==
  [i \in 1..(42 * 25 - 1) |->
     LET row == ((i - 1) \div 25) + 1
         col == ((i - 1) % 25) + 1
     IN  IF col = 25 THEN 10
         ELSE IF col <= 8 THEN P_key_history[col + 4]
         ELSE IF col = 23 THEN 48 + (row \div 10)
         ELSE IF col = 24 THEN 48 + (row % 10)
         ELSE 48]

\* The store's answers to request r.  The LIST of history asks for at most 20
\* keys, the LIST of history clear for at most 100.
StoreReplies(r) ==
  LET M(type, payload) == Msg(type, r.dest, payload, r.id, r.timedOut)
  IN  IF r.type = MSG_CF_KV_GET THEN { M(MSG_CF_VALUE, R_value), M(MSG_CF_NOT_FOUND, << >>) }
      ELSE { M(MSG_CF_KEYS, k) : k \in KeyLists }
             \cup { M(MSG_CF_KEYS, << >>), M(MSG_CF_NOT_FOUND, << >>),
                    M(MSG_CF_NOT_FOUND, R_value), M(MSG_CF_ERROR, R_value) }
             \cup (IF pc = "hclear" THEN { M(MSG_CF_KEYS, K_many) } ELSE {})

\* The operator has typed history or history clear.
StoreInit ==
  /\ reg \in Registries
  /\ \E l \in { L_history, L_history_clear } : mailbox = << ShellInput(l) >>
  /\ pc = "loop" /\ line = << >>
  /\ keysBuf = << >> /\ keysPos = 0 /\ waitReq = 0 /\ elapsed = 0
  /\ status = "running"
  /\ out = << Say("microkernel WASM shell v0.2"), Prompt >>
  /\ sent = << >> /\ stops = << >> /\ ran = "none" /\ taken = NoMsg /\ got = << >>
  /\ open = {} /\ nextId = 1 /\ typed = 1 /\ unsol = 0
  /\ ResolveIdle

\* The store answers the request the handler is waiting on.
Store ==
  /\ pc \in { "hlist", "hget", "hclear" } /\ mailbox = << >>
  /\ \E r \in open :
       /\ r.id = waitReq
       /\ \E m \in StoreReplies(r) : mailbox' = << m >>
       /\ open' = open \ { r }
  /\ UNCHANGED << typed, unsol >>
  /\ EnvUnchanged

StoreNext ==
  \/ LoopCommand \/ LoopRecvFail
  \/ HandlerRecv \/ HandlerTimeout \/ HandlerRecvFail \/ Tick
  \/ Store

SpecStore == StoreInit /\ [][StoreNext]_vars

\* Where the rows of a newline-separated list start, blank rows left out.
RowStarts(s) == { i \in 1..Len(s) : s[i] # 10 /\ (i = 1 \/ s[i - 1] = 10) }

\* The non-blank rows of a newline-separated list, in order.
Rows(s) ==
  [n \in 1..Cardinality(RowStarts(s)) |->
     LET i == CHOOSE x \in RowStarts(s) : Cardinality({ y \in RowStarts(s) : y < x }) = n - 1
     IN  SubSeq(s, i, SkipUntil(s, i, { 10 }) - 1)]

\* The sends of type t among those issued since the loop's last receive.
SendsOfType(t) == SelectSeq(sent, LAMBDA e : e.s.type = t)

\* C14 (as claimed): on a key-list reply to its LIST, history clear issues one
\* DELETE with payload "key=<key>" per key of the reply, in list order, waits
\* for no reply to them, and reports a count equal to the number of keys.
C14_OneDeletePerKey ==
  (Len(got) >= 1 /\ got[1].wait = "hclear" /\ got[1].rc = 0
     /\ got[1].msg.type = MSG_CF_KEYS /\ got[1].msg.payload # << >>) =>
    LET keys == Rows(got[1].msg.payload)
        dels == SendsOfType(MSG_CF_KV_DELETE)
    IN  /\ Len(got) = 1 /\ pc = "loop"
        /\ Len(dels) = Len(keys)
        /\ \A i \in 1..Len(dels) :
             /\ dels[i].s.payload = P_key \o keys[i]
             /\ dels[i].s.dest = find_kv_proxy(reg)
        /\ out = << Out("Deleted ", Len(keys), 0, << >>, Zero64), Prompt >>

\* C14 witness: the store listed 42 keys; history clear has sent 41 DELETEs
\* and reported 41.
C14_Witness ==
  /\ Len(got) = 1 /\ got[1].wait = "hclear" /\ got[1].msg.payload = K_many
  /\ Len(Rows(K_many)) = 42
  /\ Len(SendsOfType(MSG_CF_KV_DELETE)) = 41
  /\ out = << Out("Deleted ", 41, 0, << >>, Zero64), Prompt >>

\* C15: when the reply to the LIST of history is a not-found reply or has an
\* empty payload, "(no history)" is printed and no GET is issued; when it is a
\* key list, the GETs issued are, in list order, one "key=<key>" per non-blank
\* row, and none for a blank row.
C15_OneGetPerKey ==
  (Len(got) >= 1 /\ got[1].wait = "hlist" /\ got[1].rc = 0) =>
    LET m == got[1].msg
        keys == Rows(m.payload)
        gets == SendsOfType(MSG_CF_KV_GET)
    IN  /\ (m.type = MSG_CF_NOT_FOUND \/ m.payload = << >>) =>
             /\ out = << Say("(no history)"), Prompt >>
             /\ gets = << >> /\ Len(got) = 1 /\ pc = "loop"
        /\ (m.type = MSG_CF_KEYS /\ m.payload # << >>) =>
             /\ Len(gets) <= Len(keys)
             /\ \A i \in 1..Len(gets) :
                  /\ gets[i].s.payload = P_key \o keys[i]
                  /\ gets[i].s.dest = find_kv_proxy(reg)
             /\ pc = "loop" => Len(gets) = Len(keys)
             /\ ~Printed("(no history)")

\* C15 witness: the list of three keys with blank rows between them has been
\* walked to its end: three GETs, three waits after the one for the list.
C15_Witness ==
  /\ pc = "loop" /\ Len(got) = 4 /\ got[1].wait = "hlist" /\ got[1].msg.payload = K_three
  /\ Len(SendsOfType(MSG_CF_KV_GET)) = 3
  /\ SendsOfType(MSG_CF_KV_GET)[3].s.payload = P_key \o B(<< "h", "/", "c" >>)

(***************************************************************************)
(* load, over paths, fetch results and registries                          *)
(***************************************************************************)
Xs(n) == [i \in 1..n |-> 120]

A_file    == B(<< "/", "e", ".", "w", "a", "s", "m" >>)
A_url     == B(<< "h","t","t","p",":","/","/","h","/","m",".","w","a","s","m","?","v","=","2" >>)
A_https   == B(<< "h","t","t","p","s",":","/","/","h","/","m" >>)
A_dir     == B(<< "/", "d", "/" >>)
A_name63  == B(<< "/" >>) \o Xs(L_name_cap)
A_name64  == B(<< "/" >>) \o Xs(L_name_cap + 1)
A_name70  == B(<< "/" >>) \o Xs(L_name_cap + 7) \o S_wasm
A_urllong == S_http \o Xs(L_name_cap + 7)

LoadArgs == { << >>, A_file, A_url, A_https, A_dir, A_name63, A_name64, A_name70, A_urllong }

\* What a fetch can leave in FILE_BUF: nothing, a small module, and modules
\* whose size is at and around the room that the name prefix needs.
LoadFiles ==
  { F_empty, F_small }
    \cup { [F_small EXCEPT !.fill = FILE_BUF_SIZE - 4 - k] :
             k \in { 0, 1, 2, 3, L_name_cap, L_name_cap + 1, L_name_cap + 2 } }

LoadHosts ==
  { [HostDefault EXCEPT !.fail = f, !.rc = r, !.status = st, !.file = fl] :
      f \in SUBSET { 1 }, r \in { 0, -1 }, st \in { 200, 204, 404 }, fl \in LoadFiles }

\* tok holds the argument of load and the host's answers; res, what cmd_load did.
LoadInit ==
  /\ reg \in Registries
  /\ tok \in [arg : LoadArgs, h : LoadHosts]
  /\ res = Returned(<< >>)
  /\ rpc = "start"
  /\ ReplIdle

Load ==
  /\ rpc = "start"
  /\ res' = cmd_load(reg, tok.arg, tok.h)
  /\ rpc' = "done"
  /\ UNCHANGED << reg, tok, replVars >>

LoadNext == Load

SpecLoad == LoadInit /\ [][LoadNext]_vars

IsUrl(arg) == starts_with(arg, S_http) \/ starts_with(arg, S_https)

FetchedSize(h) == Len(h.file.data) + h.file.fill

\* L of the framing: the length of the derived name, at most 63.
FrameL(arg) == Min(Len(extract_name(arg)), L_name_cap)

\* Every condition that load needs before it sends.
LoadReady ==
  /\ tok.arg # << >>
  /\ tok.h.rc >= 0
  /\ IsUrl(tok.arg) => tok.h.status = 200
  /\ FetchedSize(tok.h) > 0
  /\ 1 + FrameL(tok.arg) + FetchedSize(tok.h) <= FILE_BUF_SIZE
  /\ mk_lookup(reg, N_console) # ACTOR_ID_INVALID

LoadErrors ==
  { "usage: load <path-or-url>", "error: HTTP GET failed", "error: HTTP ",
    "error: cannot read file", "error: empty file/response",
    "error: file too large for name prefix", "error: console actor not found" }

\* C16: load makes at most one send, a named spawn request to the identity
\* bound to the console name, and makes it exactly when the fetch succeeded
\* (with status 200 for a URL), the result is not empty, the framed payload
\* fits FILE_BUF and the console name resolves; otherwise its last report is
\* an error and nothing is sent.  It never blocks in a receive.
C16_LoadSendsOnlyWhenReady ==
  rpc = "done" =>
    /\ res.wait = "none"
    /\ Len(res.sends) <= 1
    /\ LoadReady =>
         /\ Len(res.sends) = 1
         /\ res.sends[1].type = MSG_SPAWN_REQUEST_NAMED
         /\ res.sends[1].dest = mk_lookup(reg, N_console)
    /\ ~LoadReady =>
         /\ res.sends = << >>
         /\ res.outs # << >>
         /\ res.outs[Len(res.outs)].tag \in LoadErrors

\* C16 witness: a URL was fetched with status 200 and the request was sent.
C16_Witness ==
  /\ rpc = "done" /\ IsUrl(tok.arg) /\ LoadReady
  /\ Len(res.sends) = 1 /\ res.sends[1].ok
  /\ res.outs[Len(res.outs)].tag = "Loading..."

\* C17: the payload that load sends for module bytes M and derived name N is
\* the byte L = min(|N|, 63), the first L bytes of N, then M; it is 1 + L + |M|
\* bytes long, and there is no send when that exceeds FILE_BUF.
C17_LoadFraming ==
  rpc = "done" =>
    LET N == extract_name(tok.arg)
        L == Min(Len(N), L_name_cap)
        M == tok.h.file
        total == 1 + L + Len(M.data) + M.fill
    IN  /\ total > FILE_BUF_SIZE => res.sends = << >>
        /\ \A i \in 1..Len(res.sends) :
             /\ res.sends[i].payload = << L >> \o Head0(N, L) \o M.data
             /\ res.sends[i].fill = M.fill
             /\ Len(res.sends[i].payload) + res.sends[i].fill = total
             /\ total <= FILE_BUF_SIZE

\* C17 witness: a name of more than 63 bytes, cut to 63, in front of a module
\* that leaves exactly no room in FILE_BUF.
C17_Witness ==
  /\ rpc = "done" /\ Len(res.sends) = 1
  /\ Len(extract_name(tok.arg)) > L_name_cap
  /\ res.sends[1].payload[1] = L_name_cap
  /\ Len(res.sends[1].payload) + res.sends[1].fill = FILE_BUF_SIZE

(***************************************************************************)
(* extract_name, over paths                                                *)
(***************************************************************************)
MaxPieces == 4

Pieces == { B(<< "/" >>), B(<< "?" >>), B(<< "e" >>), B(<< "." >>), S_wasm }

RECURSIVE PathsOf(_)
PathsOf(n) ==
  IF n = 0 THEN { << >> }
  ELSE LET shorter == PathsOf(n - 1)
       IN  shorter \cup { x \o y : x \in shorter, y \in Pieces }

P_spiffs_echo == B(<< "/","s","p","i","f","f","s","/","e","c","h","o",".","w","a","s","m" >>)
P_host_foo    == B(<< "h","t","t","p",":","/","/","h","o","s","t","/","m","o","d","u","l","e","s",
                      "/","f","o","o",".","w","a","s","m","?","v","=","2" >>)
P_noext       == B(<< "n","o","e","x","t" >>)

Paths == PathsOf(MaxPieces) \cup { P_spiffs_echo, P_host_foo, P_noext }

\* tok holds the path; res, the name extracted from it.
NameInit ==
  /\ reg \in Registries
  /\ tok \in Paths
  /\ res = << >>
  /\ rpc = "start"
  /\ ReplIdle

Name ==
  /\ rpc = "start"
  /\ res' = extract_name(tok)
  /\ rpc' = "done"
  /\ UNCHANGED << reg, tok, replVars >>

NameNext == Name

SpecName == NameInit /\ [][NameNext]_vars

\* What follows the last '/' of p (p itself when it has none).
AfterLastSlash(p) ==
  LET k == CHOOSE i \in 0..Len(p) :
             (i = 0 \/ p[i] = 47) /\ \A j \in (i + 1)..Len(p) : p[j] # 47
  IN  SubSeq(p, k + 1, Len(p))

\* f up to its first '?' (f itself when it has none).
CutAtQuery(f) ==
  LET k == CHOOSE i \in 1..(Len(f) + 1) :
             (i = Len(f) + 1 \/ f[i] = 63) /\ \A j \in 1..(i - 1) : f[j] # 63
  IN  SubSeq(f, 1, k - 1)

EndsInWasm(c) == Len(c) >= 5 /\ SubSeq(c, Len(c) - 4, Len(c)) = S_wasm

\* C18: extract_name(path) is what follows the last '/', cut at its first '?',
\* without its ".wasm" suffix whenever the cut string ends in ".wasm".
C18_ExtractName ==
  rpc = "done" =>
    LET c == CutAtQuery(AfterLastSlash(tok))
    IN  res = IF EndsInWasm(c) THEN SubSeq(c, 1, Len(c) - 5) ELSE c

\* C18 witness: a path whose file name is exactly ".wasm" has been named.
C18_Witness ==
  rpc = "done" /\ tok = B(<< "/" >>) \o S_wasm /\ res = S_wasm

(***************************************************************************)
(* The mount reply, over status bytes and identity strings                 *)
(***************************************************************************)
MaxIdent == 33

\* An identity string of n bytes, no two neighbours alike: "abc...zab...".
Ident(n) == [i \in 1..n |-> 97 + ((i - 1) % 26)]

StatusBytes == { 0, 1, 255 }

\* tok holds the status byte and the identity string; res, what cmd_mount
\* did with the reply that carries them.
MountInit ==
  /\ reg \in Registries
  /\ tok \in [s : StatusBytes, id : { Ident(n) : n \in 0..MaxIdent }]
  /\ res = Returned(<< >>)
  /\ rpc = "start"
  /\ ReplIdle

Mount ==
  /\ rpc = "start"
  /\ res' = cmd_mount_reply(0, Msg(MSG_MOUNT_RESPONSE, ID_console, << tok.s >> \o tok.id, 0, FALSE))
  /\ rpc' = "done"
  /\ UNCHANGED << reg, tok, replVars >>

MountNext == Mount

SpecMount == MountInit /\ [][MountNext]_vars

\* C19: from a reply whose payload is the status byte s followed by the
\* identity string id, mount reports success showing id (its first 31 bytes
\* when it is longer) when s = 0, and a connection failure when s # 0.
C19_MountRoundTrip ==
  rpc = "done" =>
    res = IF tok.s = 0
          THEN Returned(<< SayBytes("Mounted /node/",
                                    SubSeq(tok.id, 1, Min(Len(tok.id), M_ident_cap))) >>)
          ELSE Returned(<< Say("error: connection failed") >>)

\* C19 witness: status 0 with an empty identity string has been answered.
C19_Witness ==
  /\ rpc = "done" /\ tok.s = 0 /\ tok.id = << >>
  /\ res.outs = << Say("error: connection failed") >>

(***************************************************************************)
(* The loop among messages of every type                                   *)
(***************************************************************************)
\* Types the loop has no branch for: neighbours of the ones it names.
OtherTypes ==
  { 0, 7, 99, 101, MSG_SPAWN_REQUEST_NAMED, MSG_MOUNT_REQUEST, MSG_CAPS_REQUEST,
    MSG_CF_KV_PUT, 312, 314, 317 }

SilentTypes ==
  { MSG_MOUNT_RESPONSE, MSG_CAPS_REPLY, MSG_CF_OK, MSG_CF_VALUE, MSG_CF_KEYS,
    MSG_CF_NOT_FOUND, MSG_CF_ERROR }

LoopMessages ==
  { Msg(t, ID_stranger, << 0, 120 >>, 0, FALSE) : t \in OtherTypes \cup SilentTypes }
    \cup { Msg(MSG_SPAWN_RESPONSE, ID_console, << 11, 0, 0, 0, 0, 0, 0, 0 >> \o N_echo, 0, FALSE),
           ShellInput(L_empty), ShellInput(L_help), ShellInput(L_call_echo), ShellInput(L_exit) }

\* Two messages are queued and the loop has received neither.
LoopInit ==
  /\ reg \in Registries
  /\ \E m1 \in LoopMessages, m2 \in LoopMessages : mailbox = << m1, m2 >>
  /\ pc = "loop" /\ line = << >>
  /\ keysBuf = << >> /\ keysPos = 0 /\ waitReq = 0 /\ elapsed = 0
  /\ status = "running"
  /\ out = << Say("microkernel WASM shell v0.2"), Prompt >>
  /\ sent = << >> /\ stops = << >> /\ ran = "none" /\ taken = NoMsg /\ got = << >>
  /\ open = {} /\ nextId = 1 /\ typed = 0 /\ unsol = 0
  /\ ResolveIdle

LoopNext == Console \/ PeerReply

SpecLoop == LoopInit /\ [][LoopNext]_vars

\* The "[msg]" reports among what the current iteration printed.
MsgReports == { i \in 1..Len(out) : out[i].tag = "[msg] type=" }

\* C20: of the messages the loop receives, only one of type shell-input runs
\* a handler; a mount response, a capability reply or a KV reply runs none
\* and prints no report; a message of any other type except spawn-response
\* runs none and is reported once, as "[msg]" with its type, source and size.
C20_LoopClassification ==
  taken # NoMsg =>
    /\ (ran # "none" \/ sent # << >> \/ stops # << >> \/ got # << >>)
         => taken.type = MSG_SHELL_INPUT
    /\ taken.type \in SilentTypes =>
         /\ ran = "none"
         /\ \A i \in 1..Len(out) : out[i] = Prompt
    /\ taken.type \notin SilentTypes \cup { MSG_SHELL_INPUT, MSG_SPAWN_RESPONSE } =>
         /\ ran = "none"
         /\ Cardinality(MsgReports) = 1
         /\ \A i \in 1..Len(out) :
              IF i \in MsgReports
              THEN /\ out[i].n = taken.type
                   /\ out[i].id = taken.src
                   /\ out[i].m = Len(taken.payload)
              ELSE out[i] = Prompt

\* C20 witness: a capability request, whose type is next to the capability
\* reply's, was received by the loop and reported.
C20_Witness ==
  /\ taken.type = MSG_CAPS_REQUEST /\ pc = "loop" /\ ran = "none"
  /\ Cardinality(MsgReports) = 1
  /\ out[1].n = MSG_CAPS_REQUEST /\ out[1].m = 2 /\ out[1].id = ID_stranger

(***************************************************************************)
(* Failures of the receives                                                *)
(***************************************************************************)
\* C21: a step in which mk_recv_full fails prints the error, ends the loop and
\* makes handle_message return 0; nothing is received, dispatched, recorded or
\* sent after the end; a step in which a handler's mk_recv_timeout fails leaves
\* the console running.
C21_LoopReceiveFailureFatal ==
  [][ /\ pc # "done"
      /\ LoopRecvFail =>
           /\ out' = << Say("error: mk_recv failed") >>
           /\ pc' = "done" /\ status' = "returned 0"
           /\ sent' = << >> /\ stops' = << >> /\ ran' = "none" /\ mailbox' = mailbox
      /\ HandlerRecvFail => (pc' # "done" /\ status' = "running")
    ]_vars

\* C21 witness: the loop's receive failed after a command had sent a request,
\* with a message still queued: the session is over and the message stays.
C21_Witness ==
  /\ pc = "done" /\ status = "returned 0" /\ taken = NoMsg
  /\ out = << Say("error: mk_recv failed") >>
  /\ line = << >> /\ Len(mailbox) = 1 /\ nextId > 1

(***************************************************************************)
(* Data longer than the buffer that stages it                              *)
(***************************************************************************)
\* The host name typed on a mount line.
TypedHost == MountHostPort(RestFrom(line, 2))[1]

\* C22: a line longer than cmd_copy is reported and not recorded; a mount
\* whose host name is longer than the request has room for is reported and
\* not sent; a key list longer than INPUT_BUF is reported and no GET or DELETE
\* is sent for it.
C22_NoTruncatedPayload ==
  /\ (taken.type = MSG_SHELL_INPUT /\ Len(line) > C_copy_cap) =>
       HandlerSends("history_record") = << >>
  /\ (ran = "cmd_mount" /\ Len(TypedHost) > M_host_cap) =>
       HandlerSends("cmd_mount") = << >>
  /\ (Len(got) >= 1 /\ got[1].wait \in { "hlist", "hclear" } /\ got[1].rc = 0
        /\ Len(got[1].msg.payload) > INPUT_BUF_SIZE) =>
       \A i \in 1..Len(sent) : sent[i].s.type \notin { MSG_CF_KV_GET, MSG_CF_KV_DELETE }

\* C22 witness: mount was given a host name of 251 bytes and has sent a
\* request that carries its first 250 bytes.
C22_Witness ==
  /\ ran = "cmd_mount" /\ Len(TypedHost) = M_host_cap + 1
  /\ Len(HandlerSends("cmd_mount")) = 1
  /\ HandlerSends("cmd_mount")[1].s.payload[1] = M_host_cap
  /\ Len(HandlerSends("cmd_mount")[1].s.payload) = 1 + M_host_cap + 2

(***************************************************************************)
(* Missing and malformed arguments                                         *)
(***************************************************************************)
\* The value of a numeral of at most five digits.
RECURSIVE DecValue(_)
DecValue(t) ==
  IF t = << >> THEN 0 ELSE 10 * DecValue(SubSeq(t, 1, Len(t) - 1)) + (t[Len(t)] - 48)

\* The text after the first ':' of a mount line's argument.
TypedPort ==
  LET arg == RestFrom(line, 2)
      pos == CHOOSE i \in 1..Len(arg) : arg[i] = 58 /\ \A j \in 1..(i - 1) : arg[j] # 58
  IN  SubSeq(arg, pos + 1, Len(arg))

IsPort(t) == AllDigits(t) /\ Len(Canon(t)) <= 5 /\ DecValue(Canon(t)) <= 65535

\* The line that was dispatched lacks an argument its handler needs, or has
\* one of the wrong shape.
Malformed ==
  \/ /\ ran \in { "cmd_load", "cmd_stop", "cmd_register", "cmd_lookup", "cmd_mount" }
     /\ Field(line, 2) = << >>
  \/ /\ ran \in { "cmd_send", "cmd_call" }
     /\ (Field(line, 2) = << >> \/ Field(line, 3) = << >> \/ ~AllDigits(Field(line, 3)))
  \/ /\ ran = "cmd_mount"
     /\ \E i \in 1..Len(RestFrom(line, 2)) : RestFrom(line, 2)[i] = 58
     /\ ~IsPort(TypedPort)

Diagnostics ==
  { "usage: load <path-or-url>", "usage: stop <name-or-id>", "usage: register <name>",
    "usage: lookup <name>", "Usage: mount <host>[:<port>]",
    "usage: send <name-or-id> <type> [payload]", "usage: call <name-or-id> <type> [payload]",
    "error: unknown target '", "error: invalid message type" }

\* C23: a handler run on a line with a missing or malformed argument prints
\* one usage or diagnostic line and neither sends, stops nor receives.
C23_MalformedArgument ==
  Malformed =>
    /\ \A i \in 1..Len(sent) : sent[i].s.by = "history_record"
    /\ stops = << >> /\ got = << >> /\ pc = "loop"
    /\ Len(out) = 2 /\ out[1].tag \in Diagnostics /\ out[2] = Prompt

\* C23 witness: "mount h:x" has sent a mount request with port 0 and waits.
C23_Witness ==
  /\ line = L_mount_badport /\ ran = "cmd_mount" /\ pc = "mount"
  /\ out = << Say("Connecting...") >>
  /\ Len(sent) = 1 /\ sent[1].s.type = MSG_MOUNT_REQUEST
  /\ sent[1].s.payload = << 1, 104, 0, 0 >>

(***************************************************************************)
(* The handlers against a host whose calls fail                            *)
(***************************************************************************)
MaxFailing == 3

HostLines ==
  { L_help, L_list, L_ls_prefix, L_stop_echo, L_register_me, L_load_file, L_load_url,
    L_send_echo, L_call_echo, L_caps_echo, L_mount_h, L_history, L_history_clear }

\* The host's answers to one step: which of its sends are refused, and the
\* status of its other call.
HostAnswers ==
  { [HostDefault EXCEPT !.fail = f, !.rc = r] : f \in SUBSET (1..MaxFailing), r \in { 0, -1 } }

\* tok holds the line and the host's answers before and after the handler's
\* first receive; res, what the handler did before it and after it.
HostInit ==
  /\ reg \in Registries
  /\ tok \in [line : HostLines, h1 : HostAnswers, h2 : HostAnswers]
  /\ res = [eff |-> Returned(<< >>), reply |-> Returned(<< >>)]
  /\ rpc = "start"
  /\ ReplIdle

HostRun ==
  /\ rpc = "start"
  /\ res' = [res EXCEPT !.eff = dispatch_command(reg, tok.line, tok.h1)]
  /\ rpc' = "ran"
  /\ UNCHANGED << reg, tok, replVars >>

\* The handler's receive returns: with the peer's answer when the request
\* was delivered (a list of three keys to history and history clear, one
\* reply of the matching type to the rest), by its deadline when it was not.
HostAnswer ==
  /\ rpc = "ran" /\ res.eff.wait # "none"
  /\ LET req == res.eff.sends[Len(res.eff.sends)]
         rc == IF req.ok THEN 0 ELSE -2
         M(type, payload) == IF req.ok THEN Msg(type, req.dest, payload, 1, FALSE) ELSE NoMsg
         r == CASE res.eff.wait = "call"   -> cmd_call_reply(rc, M(7, << 111, 107 >>))
                [] res.eff.wait = "mount"  -> cmd_mount_reply(rc, M(MSG_MOUNT_RESPONSE, << 0, 110, 50 >>))
                [] res.eff.wait = "caps"   -> cmd_caps_reply(rc, M(MSG_CAPS_REPLY, << 119 >>))
                [] res.eff.wait = "hlist"  -> cmd_history_list_reply(reg, rc, M(MSG_CF_KEYS, K_three), tok.h2)
                [] res.eff.wait = "hclear" -> cmd_history_clear_reply(reg, rc, M(MSG_CF_KEYS, K_three), tok.h2)
     IN  res' = [res EXCEPT !.reply = r]
  /\ rpc' = "done"
  /\ UNCHANGED << reg, tok, replVars >>

HostNext == HostRun \/ HostAnswer

SpecHost == HostInit /\ [][HostNext]_vars

ErrorReports ==
  { "error: send failed", "error: failed to send spawn request", "error: register failed",
    "error: mk_list_actors failed", "error: ns_list failed", "error: cannot read file",
    "error: HTTP GET failed", "Timeout" }

SuccessReports ==
  { "Sent type=", "Stopped actor ", "Registered as '", "Active actors (", "ns_list",
    "Loading...", "Deleted ", "Mounted /node/" }

\* The handler has returned; everything it printed and every send it made.
HandlerReturned == (rpc = "ran" /\ res.eff.wait = "none") \/ rpc = "done"

AllOuts == res.eff.outs \o res.reply.outs

AllSends == res.eff.sends \o res.reply.sends

Reported(tags) == \E i \in 1..Len(AllOuts) : AllOuts[i].tag \in tags

Refused == \E k \in 1..Len(AllSends) : ~AllSends[k].ok

\* The handler made the host call whose status is h1.rc.
HostCalled ==
  \/ res.eff.handler \in { "cmd_list", "cmd_ns_list", "cmd_register", "cmd_load" }
  \/ res.eff.handler = "cmd_stop" /\ res.eff.stops # << >>

\* C24: a handler one of whose host calls failed (a send not delivered, a
\* negative status of stop, register, list_actors, ns_list, read_file or
\* http_get) prints an error and no success report; "Stopped actor" is printed
\* only when the stop succeeded; the count printed by history clear is the
\* number of DELETEs whose send succeeded.
C24_HostFailureReported ==
  HandlerReturned =>
    /\ (Refused \/ (tok.h1.rc < 0 /\ HostCalled)) =>
         (Reported(ErrorReports) /\ ~Reported(SuccessReports))
    /\ Reported({ "Stopped actor " }) => tok.h1.rc >= 0
    /\ \A i \in 1..Len(AllOuts) :
         AllOuts[i].tag = "Deleted " =>
           AllOuts[i].n = Cardinality({ k \in 1..Len(AllSends) :
                            AllSends[k].type = MSG_CF_KV_DELETE /\ AllSends[k].ok })

\* C24 witness: of the three DELETEs of history clear the host refused the
\* second, and the handler printed "Deleted 3".
C24_Witness ==
  /\ rpc = "done" /\ res.eff.wait = "hclear" /\ tok.h2.fail = { 2 }
  /\ Len(res.reply.sends) = 3 /\ ~res.reply.sends[2].ok
  /\ res.reply.outs = << Out("Deleted ", 3, 0, << >>, Zero64) >>

(***************************************************************************)
(* history against a store that may answer late                            *)
(***************************************************************************)
\* The key a GET the console sent asks for.
KeyOf(r) ==
  LET e == CHOOSE x \in { sent[i] : i \in 1..Len(sent) } : x.id = r.id
  IN  Tail0(e.s.payload, Len(P_key))

\* The store's answer to a request: the three keys to a LIST, and to a GET
\* a value that names the key it was stored under.
LateReplies(r) ==
  LET M(type, payload) == Msg(type, r.dest, payload, r.id, r.timedOut)
  IN  IF r.type = MSG_CF_KV_GET THEN { M(MSG_CF_VALUE, KeyOf(r)) }
      ELSE { M(MSG_CF_KEYS, K_three) }

\* The operator has typed history.
LateInit ==
  /\ reg \in Registries
  /\ mailbox = << ShellInput(L_history) >>
  /\ pc = "loop" /\ line = << >>
  /\ keysBuf = << >> /\ keysPos = 0 /\ waitReq = 0 /\ elapsed = 0
  /\ status = "running"
  /\ out = << Say("microkernel WASM shell v0.2"), Prompt >>
  /\ sent = << >> /\ stops = << >> /\ ran = "none" /\ taken = NoMsg /\ got = << >>
  /\ open = {} /\ nextId = 1 /\ typed = 1 /\ unsol = 0
  /\ ResolveIdle

\* The store answers a request of history, whether or not the wait for it
\* has ended.
StoreLate ==
  /\ pc \in { "hlist", "hget" } /\ Len(mailbox) < MaxMailbox
  /\ \E r \in open : \E m \in LateReplies(r) :
       /\ mailbox' = Append(mailbox, m)
       /\ open' = open \ { r }
  /\ UNCHANGED << typed, unsol >>
  /\ EnvUnchanged

LateNext ==
  \/ LoopCommand \/ LoopRecvFail
  \/ HandlerRecv \/ HandlerTimeout \/ HandlerRecvFail \/ Tick
  \/ StoreLate

SpecLate == LateInit /\ [][LateNext]_vars

\* C25: a VALUE that history receives in the wait for a key, and prints, is
\* the reply to the GET issued for that key.
C25_ValueOfCurrentKey ==
  \A i \in DOMAIN got :
    (got[i].wait = "hget" /\ got[i].rc = 0
       /\ got[i].msg.type = MSG_CF_VALUE /\ Len(got[i].msg.payload) > 0) =>
      got[i].msg.re = got[i].req

\* C25 witness: the GET for h/a timed out, and its VALUE was received and
\* printed in the wait for h/b.
C25_Witness ==
  /\ Len(got) = 3 /\ got[2].wait = "hget" /\ got[2].rc = -2
  /\ got[3].wait = "hget" /\ got[3].rc = 0 /\ got[3].msg.late
  /\ got[3].msg.re = got[2].req /\ got[3].req > got[2].req
  /\ got[3].msg.payload = B(<< "h", "/", "a" >>)
  /\ \E i \in 1..Len(sent) : sent[i].id = got[3].req /\ sent[i].s.payload = P_key \o B(<< "h", "/", "b" >>)
  /\ Printed("  ")

(***************************************************************************)
(* The reserved identity                                                   *)
(***************************************************************************)
\* C26: no send and no stop of the console has the reserved identity 0 as
\* its destination.
C26_NoInvalidDestination ==
  /\ \A i \in 1..Len(sent) : sent[i].s.dest # ACTOR_ID_INVALID
  /\ \A i \in 1..Len(stops) : stops[i] # ACTOR_ID_INVALID

\* C26 witness: "stop 0" has passed identity 0 to mk_stop and reported it.
C26_Witness ==
  /\ line = L_stop_zero /\ ran = "cmd_stop"
  /\ stops = << ACTOR_ID_INVALID >>
  /\ out[1] = SayId("Stopped actor ", Zero64)

(***************************************************************************)
(* The prompt                                                              *)
(***************************************************************************)
KvReplyTypes == { MSG_CF_OK, MSG_CF_ERROR, MSG_CF_VALUE, MSG_CF_KEYS, MSG_CF_NOT_FOUND }

Prompts == { i \in 1..Len(out) : out[i] = Prompt }

\* C27: when the loop blocks in mk_recv_full, the prompt is the last thing
\* printed since its previous receive, and was printed once, unless that
\* receive returned a KV reply, after which nothing was printed.
C27_PromptBeforeReceive ==
  pc = "loop" =>
    IF taken.type \in KvReplyTypes
    THEN out = << >>
    ELSE /\ out # << >> /\ Prompts = { Len(out) }

\* C27 witness: the loop absorbed a VALUE reply and is blocked in its next
\* receive without a prompt, another message being queued.
C27_Witness ==
  /\ pc = "loop" /\ taken.type = MSG_CF_VALUE /\ out = << >> /\ Len(mailbox) = 1

(***************************************************************************)
(* Every command returns                                                   *)
(***************************************************************************)
\* A receive of a handler returns: with a message, by its deadline, or with
\* a failure.
HandlerReturn == HandlerRecv \/ HandlerTimeout \/ HandlerRecvFail

\* One typed line, peers that answer or do not, and receives that return by
\* their deadline.
SpecLive == DispatchInit /\ [][DispatchNext]_vars /\ WF_vars(HandlerReturn)

\* The waits of history for a value since the loop's last receive.
FetchWaits == { i \in 1..Len(got) : got[i].wait = "hget" }

\* The key list a handler received in its first wait.
ListedKeys == Rows(got[1].msg.payload)

\* C28: a handler that waits eventually returns to the loop's receive or the
\* session ends; history over a list of n keys waits for at most n values and
\* history clear sends at most n DELETEs.
C28_CommandsReturn ==
  /\ [](Len(got) >= 1 =>
          /\ Cardinality(FetchWaits) > 0 =>
               (got[1].wait = "hlist" /\ Cardinality(FetchWaits) <= Len(ListedKeys))
          /\ SendsOfType(MSG_CF_KV_DELETE) # << >> =>
               (got[1].wait = "hclear" /\ Len(SendsOfType(MSG_CF_KV_DELETE)) <= Len(ListedKeys)))
  /\ (pc \in Waits) ~> (pc \in { "loop", "done" })

\* C28 witness: history has waited for each of the two listed keys and is
\* back in the loop's receive.
C28_Witness ==
  /\ pc = "loop" /\ line = L_history /\ Len(got) = 3
  /\ got[1].msg.payload = K_two /\ Cardinality(FetchWaits) = 2
  /\ out[Len(out)] = Prompt

====
